---- MODULE Spec2Model ----
(***************************************************************************)
(* A model of the bolthelper engine of boltdb-explorer: the hierarchical   *)
(* store (bbolt buckets and values), the write operations of package       *)
(* write, the paginated listing of package listkeys and the recursive      *)
(* search of package search.                                               *)
(*                                                                         *)
(* Byte strings are sequences of byte values.  A store is the set of its   *)
(* entries, each at a path (a sequence of names, root first); an entry is  *)
(* a bucket or a value.  `call` holds the arguments of the last helper     *)
(* invocation, `out` what it printed and its exit code, and `chain` the    *)
(* pages a caller has collected by following nextAfterKey.                 *)
(***************************************************************************)
EXTENDS Integers, Sequences, FiniteSets, TLC

VARIABLES db, call, out, chain

vars == <<db, call, out, chain>>

-----------------------------------------------------------------------------
(* Bounds of the model *)

MaxEntries == 3
ListDepth == 2
SearchDepth == 3
MaxLimit == 3
MaxPages == 4

\* the values below the fourth level of a deep store
MaxLeaves == 2

\* the largest number of bytes asked of readHead
MaxHead == 3

\* the deepest path given to a write operation
WriteDepth == 3

\* the helper processes running at the same time
NumProcs == 2

\* the depth of the buckets that the user of the webview enters and that the
\* client's requests name
MaxNav == 1

\* the messages of the webview that the host has not answered yet
MaxPending == 2

\* the page limit of the host's listKeys (1000 in extension.ts, line 85)
PageLimit == 1

\* the limit of the webview's search (index.tsx, line 609)
SearchLimit == 100

-----------------------------------------------------------------------------
(* Byte strings *)

Slash == 47

KeyUA == <<65>>
KeyLa == <<97>>
KeyLab == <<97, 98>>
KeyLb == <<98>>

ListNames == {KeyLa, KeyLab, KeyLb}

SearchNames == {KeyUA, KeyLab, KeyLb}

Val1 == <<120>>
Val2 == <<120, 121>>

Min(S) == CHOOSE x \in S : \A y \in S : x <= y

\* Go string comparison a < b: bytewise lexicographic, a proper prefix is smaller
BytesLess(a, b) ==
  \E i \in 1..(Len(a) + 1) :
    /\ \A j \in 1..(i - 1) : j <= Len(b) /\ a[j] = b[j]
    /\ IF i = Len(a) + 1 THEN Len(b) >= i
       ELSE i <= Len(b) /\ a[i] < b[i]

HasPrefix(s, p) ==
  /\ Len(p) <= Len(s)
  /\ SubSeq(s, 1, Len(p)) = p

Contains(s, q) ==
  \E i \in 0..(Len(s) - Len(q)) : SubSeq(s, i + 1, i + Len(q)) = q

ToLower(s) ==
  [i \in 1..Len(s) |-> IF s[i] >= 65 /\ s[i] <= 90 THEN s[i] + 32 ELSE s[i]]

\* base64.StdEncoding: the output is a sequence of sextets 0..63, 64 is '='
Pad == 64

RECURSIVE EncodeToString(_)
EncodeToString(b) ==
  IF Len(b) = 0 THEN <<>>
  ELSE IF Len(b) = 1 THEN
    <<b[1] \div 4, (b[1] % 4) * 16, Pad, Pad>>
  ELSE IF Len(b) = 2 THEN
    <<b[1] \div 4, (b[1] % 4) * 16 + (b[2] \div 16), (b[2] % 16) * 4, Pad>>
  ELSE
    <<b[1] \div 4, (b[1] % 4) * 16 + (b[2] \div 16),
      (b[2] % 16) * 4 + (b[3] \div 64), b[3] % 64>>
      \o EncodeToString(SubSeq(b, 4, Len(b)))

\* base64.StdEncoding.DecodeString; the callers drop the error, so a malformed
\* input yields the bytes decoded before the malformed quantum
RECURSIVE DecodeString(_)
DecodeString(s) ==
  IF Len(s) < 4 THEN <<>>
  ELSE
    LET q == SubSeq(s, 1, 4)
        rest == SubSeq(s, 5, Len(s))
    IN IF q[1] = Pad \/ q[2] = Pad THEN <<>>
       ELSE IF q[3] = Pad THEN
         IF q[4] = Pad /\ rest = <<>> THEN <<q[1] * 4 + (q[2] \div 16)>> ELSE <<>>
       ELSE IF q[4] = Pad THEN
         IF rest = <<>>
         THEN <<q[1] * 4 + (q[2] \div 16), (q[2] % 16) * 16 + (q[3] \div 4)>>
         ELSE <<>>
       ELSE
         <<q[1] * 4 + (q[2] \div 16), (q[2] % 16) * 16 + (q[3] \div 4),
           (q[3] % 4) * 64 + q[4]>> \o DecodeString(rest)

\* strings.Split(bucketPath, "/")
RECURSIVE Split(_)
Split(s) ==
  LET cut == {i \in 1..Len(s) : s[i] = Slash}
  IN IF cut = {} THEN <<s>>
     ELSE <<SubSeq(s, 1, Min(cut) - 1)>> \o Split(SubSeq(s, Min(cut) + 1, Len(s)))

\* the caller's encoding of a path: its names joined by "/"
RECURSIVE Join(_)
Join(p) ==
  IF Len(p) = 0 THEN <<>>
  ELSE IF Len(p) = 1 THEN p[1]
  ELSE p[1] \o <<Slash>> \o Join(Tail(p))

\* the path of a command: empty when the flag is empty, else the split flag
PathOf(bucketPath) == IF bucketPath = <<>> THEN <<>> ELSE Split(bucketPath)

-----------------------------------------------------------------------------
(* The store *)

\* a store is the set of its entries, each at a path from the root
BucketEntry(p) == [path |-> p, isBucket |-> TRUE, val |-> <<>>]

ValueEntry(p, v) == [path |-> p, isBucket |-> FALSE, val |-> v]

EmptyStore == {}

PathsOf(d) == {e.path : e \in d}

EntryAt(d, p) == CHOOSE e \in d : e.path = p

IsBucketAt(d, p) == BucketEntry(p) \in d

IsValueAt(d, p) == p \in PathsOf(d) /\ ~IsBucketAt(d, p)

Below(p, q) == Len(q) >= Len(p) /\ SubSeq(q, 1, Len(p)) = p

\* the keys of the container at path p (p = <<>> is the root)
ChildKeys(d, p) ==
  {q[Len(q)] : q \in {r \in PathsOf(d) : Len(r) = Len(p) + 1 /\ Below(p, r)}}

\* the key order of a bbolt bucket: ascending raw bytes
RECURSIVE SortKeys(_)
SortKeys(S) ==
  IF S = {} THEN <<>>
  ELSE LET m == CHOOSE x \in S : \A y \in S \ {x} : BytesLess(x, y)
       IN <<m>> \o SortKeys(S \ {m})

\* the keys a cursor or ForEach over the container at p visits, in order
CursorKeys(d, p) == SortKeys(ChildKeys(d, p))

\* a nil *bbolt.Bucket: no bucket has an empty name
Nil == <<<<>>>>

\* b.Bucket(name) on the bucket at path `at`
BucketIn(d, at, name) ==
  IF at # Nil /\ IsBucketAt(d, Append(at, name)) THEN Append(at, name) ELSE Nil

\* the descent giving the bucket reached so far when a name does not resolve
RECURSIVE Descend_Partial(_, _, _)
Descend_Partial(d, b, rest) ==
  IF rest = <<>> THEN b
  ELSE IF b = Nil THEN Nil
  ELSE IF BucketIn(d, b, Head(rest)) = Nil THEN b
  ELSE Descend_Partial(d, BucketIn(d, b, Head(rest)), Tail(rest))

\* common.BucketAtPath: the path of the bucket reached, or Nil
RECURSIVE Descend(_, _, _)
Descend(d, b, rest) ==
  IF rest = <<>> THEN b
  ELSE IF b = Nil THEN Nil
  ELSE Descend(d, BucketIn(d, b, Head(rest)), Tail(rest))

BucketAtPath(d, path) == Descend(d, BucketIn(d, <<>>, path[1]), Tail(path))

\* the entry added only where the store has none at its path
WithEntry_IfAbsent(d, e) == IF e.path \in PathsOf(d) THEN d ELSE d \cup {e}

\* the entry put in place of every entry of its bucket
WithEntry_Alone(d, e) ==
  {x \in d : ~(/\ Len(x.path) = Len(e.path)
               /\ SubSeq(x.path, 1, Len(x.path) - 1) = SubSeq(e.path, 1, Len(e.path) - 1))}
    \cup {e}

\* Bucket.Put and CreateBucket: the entry at the path of e is e
WithEntry(d, e) == {x \in d : x.path # e.path} \cup {e}

\* the store without the entry at p, what was below it left behind
WithoutSubtree_EntryOnly(d, p) == {x \in d : x.path # p}

\* the store without the entry at p and everything below it
WithoutSubtree(d, p) == {x \in d : ~Below(p, x.path)}

-----------------------------------------------------------------------------
(* Package write: the four write operations, each one Update transaction.  *)
(* A result is the store after the transaction and the error returned; an  *)
(* error rolls the transaction back.                                       *)

Ok(d) == [db |-> d, err |-> ""]

Err(d, e) == [db |-> d, err |-> e]

\* Bucket.CreateBucket(name) in the bucket at path parent (<<>> is the root)
\* CreateBucketIfNotExists: an existing bucket is no error
CreateBucketIn_IfNotExists(d, parent, name) ==
  IF name = <<>> THEN Err(d, "bucket name required")
  ELSE IF IsBucketAt(d, Append(parent, name)) THEN Ok(d)
  ELSE IF IsValueAt(d, Append(parent, name)) THEN Err(d, "incompatible value")
  ELSE Ok(WithEntry(d, BucketEntry(Append(parent, name))))

CreateBucketIn(d, parent, name) ==
  IF name = <<>> THEN Err(d, "bucket name required")
  ELSE IF IsBucketAt(d, Append(parent, name)) THEN Err(d, "bucket already exists")
  ELSE IF IsValueAt(d, Append(parent, name)) THEN Err(d, "incompatible value")
  ELSE Ok(WithEntry(d, BucketEntry(Append(parent, name))))

\* DeleteBucket removing the value it was given before it reports the error
DeleteBucketIn_DropsValue(d, parent, name) ==
  IF IsBucketAt(d, Append(parent, name)) THEN Ok(WithoutSubtree(d, Append(parent, name)))
  ELSE IF IsValueAt(d, Append(parent, name))
    THEN Err({x \in d : x.path # Append(parent, name)}, "incompatible value")
  ELSE Err(d, "bucket not found")

\* Bucket.DeleteBucket(name) in the bucket at path parent (<<>> is the root)
DeleteBucketIn(d, parent, name) ==
  IF IsBucketAt(d, Append(parent, name)) THEN Ok(WithoutSubtree(d, Append(parent, name)))
  ELSE IF IsValueAt(d, Append(parent, name)) THEN Err(d, "incompatible value")
  ELSE Err(d, "bucket not found")

createBucket(d, bucketPath) ==
  IF bucketPath = <<>> THEN Err(d, "bucket path required")
  ELSE
    LET path == Split(bucketPath)
        bucketName == path[Len(path)]
        parentPath == SubSeq(path, 1, Len(path) - 1)
    IN IF Len(path) = 1 THEN CreateBucketIn(d, <<>>, bucketName)
       ELSE IF BucketAtPath(d, parentPath) = Nil THEN Err(d, "parent bucket not found")
       ELSE CreateBucketIn(d, BucketAtPath(d, parentPath), bucketName)

\* putKeyValue without the test for the root: the key is put at the top level
putKeyValue_AtRoot(d, bucketPath, keyBase64, valueBase64) ==
  IF keyBase64 = <<>> THEN Err(d, "key required")
  ELSE IF valueBase64 = <<>> THEN Err(d, "value required")
  ELSE
    LET bucket == IF bucketPath = <<>> THEN <<>> ELSE BucketAtPath(d, Split(bucketPath))
        key == DecodeString(keyBase64)
    IN IF bucket = Nil THEN Err(d, "bucket not found")
       ELSE IF IsBucketAt(d, Append(bucket, key)) THEN Err(d, "incompatible value")
       ELSE Ok(WithEntry(d, ValueEntry(Append(bucket, key), DecodeString(valueBase64))))

putKeyValue(d, bucketPath, keyBase64, valueBase64) ==
  IF keyBase64 = <<>> THEN Err(d, "key required")
  ELSE IF valueBase64 = <<>> THEN Err(d, "value required")
  ELSE IF EncodeToString(DecodeString(keyBase64)) # keyBase64
    THEN Err(d, "invalid key base64")
  ELSE IF EncodeToString(DecodeString(valueBase64)) # valueBase64
    THEN Err(d, "invalid value base64")
  ELSE IF bucketPath = <<>> THEN Err(d, "cannot put key-value at root level")
  ELSE
    LET bucket == BucketAtPath(d, Split(bucketPath))
        key == DecodeString(keyBase64)
    IN IF bucket = Nil THEN Err(d, "bucket not found")
       ELSE IF IsBucketAt(d, Append(bucket, key)) THEN Err(d, "incompatible value")
       ELSE Ok(WithEntry(d, ValueEntry(Append(bucket, key), DecodeString(valueBase64))))

\* deleteKey failing on a key the bucket does not hold
deleteKey_AbsentFails(d, bucketPath, keyBase64) ==
  IF keyBase64 = <<>> THEN Err(d, "key required")
  ELSE IF bucketPath = <<>> THEN Err(d, "cannot delete key at root level")
  ELSE
    LET bucket == BucketAtPath(d, Split(bucketPath))
        key == DecodeString(keyBase64)
    IN IF bucket = Nil THEN Err(d, "bucket not found")
       ELSE IF ~IsValueAt(d, Append(bucket, key)) THEN Err(d, "key not found")
       ELSE Ok({x \in d : x.path # Append(bucket, key)})

deleteKey(d, bucketPath, keyBase64) ==
  IF keyBase64 = <<>> THEN Err(d, "key required")
  ELSE IF EncodeToString(DecodeString(keyBase64)) # keyBase64
    THEN Err(d, "invalid key base64")
  ELSE IF bucketPath = <<>> THEN Err(d, "cannot delete key at root level")
  ELSE
    LET bucket == BucketAtPath(d, Split(bucketPath))
        key == DecodeString(keyBase64)
    IN IF bucket = Nil THEN Err(d, "bucket not found")
       ELSE IF IsBucketAt(d, Append(bucket, key)) THEN Err(d, "incompatible value")
       ELSE Ok({x \in d : x.path # Append(bucket, key)})

deleteBucket(d, bucketPath) ==
  IF bucketPath = <<>> THEN Err(d, "bucket path required")
  ELSE
    LET path == Split(bucketPath)
        bucketName == path[Len(path)]
        parentPath == SubSeq(path, 1, Len(path) - 1)
    IN IF Len(path) = 1 THEN DeleteBucketIn(d, <<>>, bucketName)
       ELSE IF BucketAtPath(d, parentPath) = Nil THEN Err(d, "parent bucket not found")
       ELSE DeleteBucketIn(d, BucketAtPath(d, parentPath), bucketName)

\* write.Run, lines 36-47: the operation of the invocation c
WriteRun(d, c) ==
  CASE c.op = "create-bucket" -> createBucket(d, c.path)
    [] c.op = "put" -> putKeyValue(d, c.path, c.key, c.value)
    [] c.op = "delete-key" -> deleteKey(d, c.path, c.key)
    [] c.op = "delete-bucket" -> deleteBucket(d, c.path)

\* write.Run after the operation: Fail (exit 1) on an error, else {"ok": true}
WriteOut(r) == IF r.err = "" THEN [exit |-> 0, ok |-> TRUE] ELSE [exit |-> 1, err |-> r.err]

-----------------------------------------------------------------------------
(* Package listkeys: Run, the lsk subcommand *)

Item(k, size, isBucket) ==
  [keyBase64 |-> EncodeToString(k), valueSize |-> size, isBucket |-> isBucket]

\* what the cursor yields at key k of the container at path b: the key and the
\* value, nil (a bucket) reported as isBucket with length 0
ItemAt(d, b, k) ==
  LET e == EntryAt(d, Append(b, k))
  IN Item(k, IF e.isBucket THEN 0 ELSE Len(e.val), e.isBucket)

\* the size of a root bucket counting its values only
AllBuckets_ValuesOnly(d) ==
  LET names == CursorKeys(d, <<>>)
  IN [i \in 1..Len(names) |->
        [name |-> names[i],
         size |-> Cardinality({k \in ChildKeys(d, <<names[i]>>) : IsValueAt(d, <<names[i], k>>)})]]

\* tx.ForEach with the inner bucket.ForEach: every root bucket in key order with
\* the number of its entries
AllBuckets(d) ==
  LET names == CursorKeys(d, <<>>)
  IN [i \in 1..Len(names) |->
        [name |-> names[i], size |-> Cardinality(ChildKeys(d, <<names[i]>>))]]

\* lines 75-84: the index (from 0) of the first bucket whose name is greater
\* than the resumption key, 0 when there is none
StartIdx(all, afterKey) ==
  IF afterKey = <<>> THEN 0
  ELSE
    LET kRaw == DecodeString(afterKey)
        greater == {i \in 0..(Len(all) - 1) : BytesLess(kRaw, all[i + 1].name)}
    IN IF greater = {} THEN 0 ELSE Min(greater)

\* lines 86-99: the loop over allBuckets from index i with count items so far
RECURSIVE RootLoop(_, _, _, _, _, _)
RootLoop(all, prefix, limit, i, count, items) ==
  IF ~(i < Len(all) /\ count < limit) THEN [count |-> count, items |-> items]
  ELSE IF prefix # <<>> /\ ~HasPrefix(all[i + 1].name, prefix)
    THEN RootLoop(all, prefix, limit, i + 1, count, items)
  ELSE RootLoop(all, prefix, limit, i + 1, count + 1,
                Append(items, Item(all[i + 1].name, all[i + 1].size, TRUE)))

\* lines 52-106: the root level
ListRoot(d, prefix, limit, afterKey) ==
  LET all == AllBuckets(d)
      startIdx == StartIdx(all, afterKey)
      got == RootLoop(all, prefix, limit, startIdx, 0, <<>>)
  IN [exit |-> 0,
      items |-> got.items,
      nextAfterKey |-> IF startIdx + got.count < Len(all)
                       THEN EncodeToString(all[startIdx + got.count + 1].name)
                       ELSE <<>>,
      approxReturned |-> got.count]

\* Cursor.Seek: the position (from 1) of the first key not less than kRaw,
\* Len(keys) + 1 (a nil key) when there is none
Seek(keys, kRaw) ==
  LET at == {i \in 1..Len(keys) : ~BytesLess(keys[i], kRaw)}
  IN IF at = {} THEN Len(keys) + 1 ELSE Min(at)

\* lines 113-122: where the cursor stands before the loop
StartPos(keys, afterKey) ==
  IF afterKey # <<>> THEN
    LET pos == Seek(keys, DecodeString(afterKey))
    IN IF pos <= Len(keys) THEN pos + 1 ELSE pos
  ELSE 1

\* lines 123-137: the loop over the cursor from position pos
RECURSIVE CursorLoop(_, _, _, _, _, _, _, _)
CursorLoop(d, b, keys, prefix, limit, pos, count, items) ==
  IF pos > Len(keys) THEN [count |-> count, items |-> items, nextAfterKey |-> <<>>]
  ELSE IF prefix # <<>> /\ ~HasPrefix(keys[pos], prefix)
    THEN CursorLoop(d, b, keys, prefix, limit, pos + 1, count, items)
  ELSE IF count >= limit
    THEN [count |-> count, items |-> items, nextAfterKey |-> EncodeToString(keys[pos])]
  ELSE CursorLoop(d, b, keys, prefix, limit, pos + 1, count + 1,
                  Append(items, ItemAt(d, b, keys[pos])))

\* lines 108-143: a container; the error View returns for a nil bucket is
\* dropped at line 50 and the untouched result is printed at line 145
ListBucket(d, path, prefix, limit, afterKey) ==
  LET b == BucketAtPath(d, path)
      keys == CursorKeys(d, b)
      got == CursorLoop(d, b, keys, prefix, limit, StartPos(keys, afterKey), 0, <<>>)
  IN IF b = Nil
     THEN [exit |-> 0, items |-> <<>>, nextAfterKey |-> <<>>, approxReturned |-> 0]
     ELSE [exit |-> 0,
           items |-> got.items,
           nextAfterKey |-> IF got.count = limit /\ got.nextAfterKey # <<>>
                            THEN got.nextAfterKey ELSE <<>>,
           approxReturned |-> got.count]

LskRun(d, bucketPath, prefix, limit, afterKey) ==
  IF PathOf(bucketPath) = <<>> THEN ListRoot(d, prefix, limit, afterKey)
  ELSE ListBucket(d, PathOf(bucketPath), prefix, limit, afterKey)

-----------------------------------------------------------------------------
(* Go slices of strings.  The heap is the sequence of the backing arrays    *)
(* allocated so far, a slice is an array of the heap and a length; its      *)
(* capacity is the length of the array.                                     *)

\* []string{}
EmptySlice == [arr |-> 0, len |-> 0]

Cap(heap, s) == IF s.arr = 0 THEN 0 ELSE Len(heap[s.arr])

\* the elements a reader of the slice sees
Elems(heap, s) == IF s.len = 0 THEN <<>> ELSE SubSeq(heap[s.arr], 1, s.len)

Zeroes(n) == [i \in 1..n |-> <<>>]

\* []string{x}
SliceOf(heap, x) ==
  [heap |-> Append(heap, <<x>>), slice |-> [arr |-> Len(heap) + 1, len |-> 1]]

\* append(s, x): in place while the array has room, else into a new array of
\* twice the capacity
GoAppend(heap, s, x) ==
  IF s.len < Cap(heap, s)
  THEN [heap |-> [heap EXCEPT ![s.arr][s.len + 1] = x],
        slice |-> [arr |-> s.arr, len |-> s.len + 1]]
  ELSE LET newcap == IF Cap(heap, s) = 0 THEN 1 ELSE Cap(heap, s) + Cap(heap, s)
       IN [heap |-> Append(heap, Elems(heap, s) \o <<x>> \o Zeroes(newcap - s.len - 1)),
           slice |-> [arr |-> Len(heap) + 1, len |-> s.len + 1]]

\* the item keeping the slice it was given
CopyPath_Shared(heap, s) == [heap |-> heap, slice |-> s]

\* append([]string{}, path...): the elements in an array of their own
CopyPath(heap, s) ==
  [heap |-> Append(heap, Elems(heap, s)), slice |-> [arr |-> Len(heap) + 1, len |-> s.len]]

-----------------------------------------------------------------------------
(* Package search: Run, searchRecursive and searchInBucket.  The results   *)
(* slice and the counter that the recursion shares are the record sr, with *)
(* the heap of the path slices and the trace of the work done so far.      *)

SearchItem(path, k, size, isBucket) ==
  [path |-> path, keyBase64 |-> EncodeToString(k), valueSize |-> size,
   isBucket |-> isBucket, type |-> IF isBucket THEN "bucket" ELSE "key"]

NoResults == [items |-> <<>>, count |-> 0, heap |-> <<>>, trace |-> <<>>]

\* the key compared as it is stored, never folded
SearchKey_Unfolded(k, caseSensitive) == k

\* lines 82-86 and 125-129: the key as it is compared with the query
SearchKey(k, caseSensitive) == IF caseSensitive THEN k ELSE ToLower(k)

\* lines 132-146: the item is appended and counted when the key matches; cp is
\* the heap and the slice of the item's path
Matched(sr, k, query, caseSensitive, cp, size, isBucket) ==
  IF Contains(SearchKey(k, caseSensitive), query)
  THEN [items |-> Append(sr.items, SearchItem(cp.slice, k, size, isBucket)),
        count |-> sr.count + 1,
        heap |-> cp.heap,
        trace |-> Append(sr.trace, [op |-> "append", count |-> sr.count])]
  ELSE sr

\* a bucket is entered whatever the count
Descends_Always(isBucket, count, limit) == isBucket

\* lines 102 and 149: a bucket is entered while the count is below the limit
Descends(isBucket, count, limit) == isBucket /\ count < limit

\* the recursive call on the bucket at path b, reached through the slice np
Entered(sr, np) ==
  [sr EXCEPT !.heap = np.heap,
             !.trace = Append(@, [op |-> "descend", count |-> sr.count])]

\* searchInBucket: bucket.ForEach over the keys from position i on; once the
\* count has reached the limit the callback returns at once for every key left
RECURSIVE searchInBucket(_, _, _, _, _, _, _, _)
searchInBucket(d, bucket, path, query, caseSensitive, limit, sr, i) ==
  LET keys == CursorKeys(d, bucket)
  IN IF i > Len(keys) THEN sr
     ELSE IF sr.count >= limit
       THEN searchInBucket(d, bucket, path, query, caseSensitive, limit, sr, i + 1)
     ELSE
       LET k == keys[i]
           e == EntryAt(d, Append(bucket, k))
           hit == Matched(sr, k, query, caseSensitive, CopyPath(sr.heap, path),
                          IF e.isBucket THEN 0 ELSE Len(e.val), e.isBucket)
           newPath == GoAppend(hit.heap, path, k)
           deep == IF Descends(e.isBucket, hit.count, limit)
                      /\ BucketIn(d, bucket, k) # Nil
                   THEN searchInBucket(d, BucketIn(d, bucket, k), newPath.slice,
                                       query, caseSensitive, limit,
                                       Entered(hit, newPath), 1)
                   ELSE IF Descends(e.isBucket, hit.count, limit)
                     THEN [hit EXCEPT !.heap = newPath.heap]
                   ELSE hit
       IN searchInBucket(d, bucket, path, query, caseSensitive, limit, deep, i + 1)

\* the root loop descending only into the buckets whose own name matched
RECURSIVE searchRoot_MatchedOnly(_, _, _, _, _, _)
searchRoot_MatchedOnly(d, query, caseSensitive, limit, sr, i) ==
  LET names == CursorKeys(d, <<>>)
  IN IF i > Len(names) THEN sr
     ELSE IF sr.count >= limit
       THEN searchRoot_MatchedOnly(d, query, caseSensitive, limit, sr, i + 1)
     ELSE
       LET name == names[i]
           hit == Matched(sr, name, query, caseSensitive,
                          [heap |-> sr.heap, slice |-> EmptySlice], 0, TRUE)
           newPath == SliceOf(hit.heap, name)
           deep == IF Descends(TRUE, hit.count, limit) /\ hit.count > sr.count
                   THEN searchInBucket(d, <<name>>, newPath.slice, query,
                                       caseSensitive, limit, Entered(hit, newPath), 1)
                   ELSE hit
       IN searchRoot_MatchedOnly(d, query, caseSensitive, limit, deep, i + 1)

\* searchRecursive with the empty path: tx.ForEach over the root buckets from
\* position i on
RECURSIVE searchRoot(_, _, _, _, _, _)
searchRoot(d, query, caseSensitive, limit, sr, i) ==
  LET names == CursorKeys(d, <<>>)
  IN IF i > Len(names) THEN sr
     ELSE IF sr.count >= limit
       THEN searchRoot(d, query, caseSensitive, limit, sr, i + 1)
     ELSE
       LET name == names[i]
           hit == Matched(sr, name, query, caseSensitive,
                          [heap |-> sr.heap, slice |-> EmptySlice], 0, TRUE)
           newPath == SliceOf(hit.heap, name)
           deep == IF Descends(TRUE, hit.count, limit)
                   THEN searchInBucket(d, <<name>>, newPath.slice, query,
                                       caseSensitive, limit, Entered(hit, newPath), 1)
                   ELSE hit
       IN searchRoot(d, query, caseSensitive, limit, deep, i + 1)

\* path is the slice the caller holds
searchRecursive(d, path, query, caseSensitive, limit, sr) ==
  IF sr.count >= limit THEN sr
  ELSE IF path.len = 0 THEN searchRoot(d, query, caseSensitive, limit, sr, 1)
  ELSE IF BucketAtPath(d, Elems(sr.heap, path)) = Nil THEN sr
  ELSE searchInBucket(d, BucketAtPath(d, Elems(sr.heap, path)), path, query,
                      caseSensitive, limit, sr, 1)

\* lines 62-67: the response as it is encoded, every path read from the slice
\* the item holds
Response(sr, limited) ==
  [exit |-> 0,
   items |-> [i \in 1..Len(sr.items) |->
                [sr.items[i] EXCEPT !.path = Elems(sr.heap, sr.items[i].path)]],
   total |-> Len(sr.items),
   limited |-> limited,
   trace |-> sr.trace]

\* Run reporting limited only when more than limit items were collected
SearchRun_LimitedWhenOver(d, query, limit, caseSensitive) ==
  IF query = <<>> THEN [exit |-> 1, err |-> "missing required args: db and query"]
  ELSE
    LET searchQuery == IF caseSensitive THEN query ELSE ToLower(query)
        sr == searchRecursive(d, EmptySlice, searchQuery, caseSensitive, limit, NoResults)
    IN Response(sr, Len(sr.items) > limit)

\* search.Run: the query is folded unless the search is case sensitive
SearchRun(d, query, limit, caseSensitive) ==
  IF query = <<>> THEN [exit |-> 1, err |-> "missing required args: db and query"]
  ELSE
    LET searchQuery == IF caseSensitive THEN query ELSE ToLower(query)
        sr == searchRecursive(d, EmptySlice, searchQuery, caseSensitive, limit, NoResults)
    IN Response(sr, Len(sr.items) >= limit)

-----------------------------------------------------------------------------
(* Package get: Run in the modes head and save.                            *)

\* the nil byte slice
NoValue == [nil |-> TRUE, bytes |-> <<>>]

\* Bucket.Get: nil when the key is absent or names a nested bucket
Get(d, b, key) ==
  IF IsValueAt(d, Append(b, key))
  THEN [nil |-> FALSE, bytes |-> EntryAt(d, Append(b, key)).val]
  ELSE NoValue

\* lines 214-229: the function run in db.View, with the error it returns and
\* the variables val and total as it leaves them
GetView(d, path, key) ==
  IF Len(path) = 0
  THEN [err |-> "cannot get values at root level, only buckets", val |-> NoValue, total |-> 0]
  ELSE IF BucketAtPath(d, path) = Nil
    THEN [err |-> "bucket not found", val |-> NoValue, total |-> 0]
  ELSE LET val == Get(d, BucketAtPath(d, path), key)
       IN [err |-> "", val |-> val, total |-> IF val.nil THEN 0 ELSE Len(val.bytes)]

\* the head being the whole value whatever n
HeadOf_Whole(val, n) == val.bytes

\* lines 232-235: the first n bytes of a longer value
HeadOf(val, n) == IF Len(val.bytes) > n THEN SubSeq(val.bytes, 1, n) ELSE val.bytes

\* the default of the flag n
DefaultN == 65536

\* get.Run: the error of db.View is dropped (line 214), so the result is
\* printed whatever the function returned; file is the file that save has
\* created and the bytes copied to it
GetRun(d, bucketPath, keyBase64, mode, n, outFile) ==
  IF keyBase64 = <<>> THEN [exit |-> 1, err |-> "missing required args"]
  ELSE
    LET v == GetView(d, PathOf(bucketPath), DecodeString(keyBase64))
    IN IF mode = "head"
       THEN [exit |-> 0, mode |-> "head", totalSize |-> v.total,
             valueHeadBase64 |-> EncodeToString(HeadOf(v.val, n))]
       ELSE IF mode = "save"
         THEN IF outFile = "" THEN [exit |-> 1, err |-> "create out"]
              ELSE [exit |-> 0, mode |-> "save", totalSize |-> v.total,
                    writtenPath |-> outFile,
                    file |-> [name |-> outFile, bytes |-> v.val.bytes]]
       ELSE [exit |-> 0]

-----------------------------------------------------------------------------
(* Package export: Run.  The output file is the sequence of the rows       *)
(* encoded to it; trace is the order in which the cursor has yielded keys  *)
(* (read) and the encoder has written rows to the file (write).            *)

\* line 67: one row of the output file; v is nil for a nested bucket
Row(path, k, v) ==
  [path |-> path, keyBase64 |-> EncodeToString(k), valueBase64 |-> EncodeToString(v.bytes)]

\* no key being skipped, whatever the prefix
Selected_All(prefix, k) == TRUE

\* lines 64-66: a key that does not start with a non-empty prefix is skipped
Selected(prefix, k) == ~(prefix # <<>> /\ ~HasPrefix(k, prefix))

\* lines 63-71: the cursor loop over keys, the keys of the bucket b that the
\* cursor has not yielded yet; the encoder writes each row to the file at once
RECURSIVE ExportLoop(_, _, _, _, _, _)
ExportLoop(d, b, path, prefix, keys, f) ==
  IF keys = <<>> THEN f
  ELSE
    LET k == Head(keys)
        read == Append(f.trace, [ev |-> "read", key |-> k])
    IN IF ~Selected(prefix, k)
       THEN ExportLoop(d, b, path, prefix, Tail(keys), [f EXCEPT !.trace = read])
       ELSE ExportLoop(d, b, path, prefix, Tail(keys),
                       [rows |-> Append(f.rows, Row(path, k, Get(d, b, k))),
                        trace |-> Append(read, [ev |-> "write", key |-> k])])

\* lines 52-73: the function run in db.View, with the error it returns
ExportView(d, path, prefix) ==
  LET empty == [rows |-> <<>>, trace |-> <<>>]
      b == IF Len(path) > 0 THEN BucketAtPath(d, path) ELSE <<>>
  IN IF b = Nil
     THEN [err |-> "bucket not found", f |-> empty]
     ELSE [err |-> "", f |-> ExportLoop(d, b, path, prefix, CursorKeys(d, b), empty)]

\* export.Run: the file is created before the transaction and the error of
\* db.View is dropped (line 52), so the result is printed whatever the
\* function returned
ExportRun(d, bucketPath, outFile, prefix) ==
  IF outFile = "" THEN [exit |-> 1, err |-> "missing required args"]
  ELSE
    LET v == ExportView(d, PathOf(bucketPath), prefix)
    IN [exit |-> 0, ok |-> TRUE, written |-> outFile,
        file |-> [name |-> outFile, rows |-> v.f.rows], trace |-> v.f.trace]

-----------------------------------------------------------------------------
(* The helper's invocations as actions *)

Base64Of(S) == {EncodeToString(x) : x \in S}

NoChain == [start |-> <<>>, pages |-> <<>>]

Init ==
  /\ db = EmptyStore
  /\ call = [cmd |-> "none"]
  /\ out = [exit |-> 0]
  /\ chain = NoChain

NoCall == [cmd |-> "none"]

NoOut == [exit |-> 0]

\* the helper is one process per invocation: a new one is started once the
\* caller has read the output of the last one
Idle == call = NoCall

\* the caller has read the output and is done with it
Return ==
  /\ ~Idle
  /\ call' = NoCall
  /\ out' = NoOut
  /\ chain' = NoChain
  /\ UNCHANGED db

\* one run of write.Run with the operation's result r
Written(r, c) ==
  /\ Idle
  /\ Cardinality(r.db) <= MaxEntries
  /\ db' = r.db
  /\ call' = c
  /\ out' = WriteOut(r)
  /\ chain' = NoChain

CreateBucket(P) ==
  \E p \in P :
    Written(createBucket(db, Join(p)),
            [cmd |-> "write", op |-> "create-bucket", path |-> Join(p)])

PutKeyValue(P, N, V) ==
  \E p \in P, k \in Base64Of(N), v \in Base64Of(V) :
    Written(putKeyValue(db, Join(p), k, v),
            [cmd |-> "write", op |-> "put", path |-> Join(p), key |-> k, value |-> v])

DeleteKey(P, N) ==
  \E p \in P, k \in Base64Of(N) :
    Written(deleteKey(db, Join(p), k),
            [cmd |-> "write", op |-> "delete-key", path |-> Join(p), key |-> k])

DeleteBucket(P) ==
  \E p \in P :
    Written(deleteBucket(db, Join(p)),
            [cmd |-> "write", op |-> "delete-bucket", path |-> Join(p)])

\* the paths of at most n names from N that lie in the store or directly
\* below one of its entries, and every path of one name
NearPaths(d, N, n) ==
  {<<k>> : k \in N}
    \cup {Append(q, k) : q \in {r \in PathsOf(d) : Len(r) < n}, k \in N}

\* the keys of one page, as printed
PageKeys(o) == [i \in 1..Len(o.items) |-> o.items[i].keyBase64]

\* the paths a caller lists: the root, every entry of the store and two paths
\* that need not exist
ListPaths(d) == {<<>>} \cup PathsOf(d) \cup {<<KeyLb>>, <<KeyLb, KeyLb>>}

ListPrefixes == {<<>>, KeyLa, KeyLb}

\* one run of lsk with arbitrary arguments: the first page of a chain
ListKeys(N) ==
  \E p \in ListPaths(db), prefix \in ListPrefixes, limit \in 1..MaxLimit,
     afterKey \in {<<>>} \cup Base64Of(N) :
    /\ Idle
    /\ call' = [cmd |-> "lsk", path |-> Join(p), prefix |-> prefix,
                limit |-> limit, afterKey |-> afterKey]
    /\ out' = LskRun(db, Join(p), prefix, limit, afterKey)
    /\ chain' = [start |-> afterKey, pages |-> <<PageKeys(out')>>]
    /\ UNCHANGED db

\* the caller asks for the next page: the same arguments with the returned
\* nextAfterKey as afterKey
ListMore ==
  /\ call.cmd = "lsk"
  /\ out.nextAfterKey # <<>>
  /\ Len(chain.pages) < MaxPages
  /\ call' = [call EXCEPT !.afterKey = out.nextAfterKey]
  /\ out' = LskRun(db, call.path, call.prefix, call.limit, out.nextAfterKey)
  /\ chain' = [chain EXCEPT !.pages = Append(@, PageKeys(out'))]
  /\ UNCHANGED db

NextList ==
  \/ CreateBucket(NearPaths(db, ListNames, ListDepth))
  \/ PutKeyValue(NearPaths(db, ListNames, ListDepth - 1), ListNames, {Val1})
  \/ DeleteKey(NearPaths(db, ListNames, ListDepth - 1), ListNames)
  \/ DeleteBucket(NearPaths(db, ListNames, ListDepth))
  \/ ListKeys(ListNames)
  \/ ListMore
  \/ Return

SpecList == Init /\ [][NextList]_vars

SearchQueries == {KeyUA, KeyLa, KeyLb, KeyLab, <<65, 66>>}

\* one run of search
Search ==
  \E query \in SearchQueries, limit \in 1..MaxLimit, caseSensitive \in BOOLEAN :
    /\ Idle
    /\ call' = [cmd |-> "search", query |-> query, limit |-> limit,
                caseSensitive |-> caseSensitive]
    /\ out' = SearchRun(db, query, limit, caseSensitive)
    /\ chain' = NoChain
    /\ UNCHANGED db

NextSearch ==
  \/ CreateBucket(NearPaths(db, SearchNames, SearchDepth))
  \/ PutKeyValue(NearPaths(db, SearchNames, SearchDepth - 1), SearchNames, {Val1, Val2})
  \/ DeleteKey(NearPaths(db, SearchNames, SearchDepth - 1), SearchNames)
  \/ DeleteBucket(NearPaths(db, SearchNames, SearchDepth))
  \/ Search
  \/ Return

SpecSearch == Init /\ [][NextSearch]_vars

\* the three buckets on the way down to the fourth level
Spine(x, y, z) == {BucketEntry(<<x>>), BucketEntry(<<x, y>>), BucketEntry(<<x, y, z>>)}

SpineNames == {KeyUA, KeyLb}

\* the entries of the fourth level: f tells for every name whether it is
\* absent, a bucket or a value
Level4(at, f) ==
  {BucketEntry(Append(at, k)) : k \in {n \in DOMAIN f : f[n] = "bucket"}}
    \cup {ValueEntry(Append(at, k), Val1) : k \in {n \in DOMAIN f : f[n] = "value"}}

\* the values of the fifth level: C is a set of pairs of a bucket of the
\* fourth level and a key
Level5(at, C) == {ValueEntry(at \o c, Val2) : c \in C}

\* stores five levels deep, as create-bucket and put build them: below the
\* spine up to three entries, and in the buckets among them up to MaxLeaves
\* values
DeepStores ==
  UNION {
    {Spine(x, y, z) \cup Level4(<<x, y, z>>, f) \cup Level5(<<x, y, z>>, C) :
       C \in {D \in SUBSET ({n \in SearchNames : f[n] = "bucket"} \X SearchNames) :
                Cardinality(D) <= MaxLeaves}} :
    x \in SpineNames, y \in {KeyLab}, z \in SpineNames,
    f \in [SearchNames -> {"none", "bucket", "value"}]}

\* the helper started on a store file that earlier runs have filled
InitDeep ==
  /\ db \in DeepStores
  /\ call = NoCall
  /\ out = NoOut
  /\ chain = NoChain

NextDeep ==
  \/ Search
  \/ Return

SpecDeep == InitDeep /\ [][NextDeep]_vars

\* the keys a caller reads: those of the stores and no key at all
GetKeys == Base64Of(ListNames) \cup {<<>>}

\* readHead of the client: get in mode head
ReadHead ==
  \E p \in ListPaths(db), k \in GetKeys, n \in 0..MaxHead :
    /\ Idle
    /\ call' = [cmd |-> "get", mode |-> "head", path |-> Join(p), key |-> k, n |-> n]
    /\ out' = GetRun(db, Join(p), k, "head", n, "")
    /\ chain' = NoChain
    /\ UNCHANGED db

\* saveToFile of the client: get in mode save, n left at its default
SaveToFile ==
  \E p \in ListPaths(db), k \in GetKeys :
    /\ Idle
    /\ call' = [cmd |-> "get", mode |-> "save", path |-> Join(p), key |-> k,
                n |-> DefaultN]
    /\ out' = GetRun(db, Join(p), k, "save", DefaultN, "out")
    /\ chain' = NoChain
    /\ UNCHANGED db

\* the caller reads back what it has just put: readHead of the same container
\* and key, asking for as many bytes as it wrote
ReadBack ==
  /\ call.cmd = "write"
  /\ call.op = "put"
  /\ out.exit = 0
  /\ call' = [cmd |-> "get", mode |-> "head", path |-> call.path, key |-> call.key,
              n |-> Len(DecodeString(call.value)), put |-> call.value]
  /\ out' = GetRun(db, call.path, call.key, "head", Len(DecodeString(call.value)), "")
  /\ chain' = NoChain
  /\ UNCHANGED db

NextGet ==
  \/ CreateBucket(NearPaths(db, ListNames, ListDepth))
  \/ PutKeyValue(NearPaths(db, ListNames, ListDepth - 1), ListNames, {Val1, Val2})
  \/ DeleteKey(NearPaths(db, ListNames, ListDepth - 1), ListNames)
  \/ DeleteBucket(NearPaths(db, ListNames, ListDepth))
  \/ ReadHead
  \/ SaveToFile
  \/ ReadBack
  \/ Return

SpecGet == Init /\ [][NextGet]_vars

\* exportBucket of the client: export to a file, with or without a bucket
\* path and a prefix
ExportBucket ==
  \E p \in ListPaths(db), prefix \in ListPrefixes :
    /\ Idle
    /\ call' = [cmd |-> "export", path |-> Join(p), prefix |-> prefix, out |-> "out"]
    /\ out' = ExportRun(db, Join(p), "out", prefix)
    /\ chain' = NoChain
    /\ UNCHANGED db

NextExport ==
  \/ CreateBucket(NearPaths(db, ListNames, ListDepth))
  \/ PutKeyValue(NearPaths(db, ListNames, ListDepth - 1), ListNames, {Val1, Val2})
  \/ DeleteKey(NearPaths(db, ListNames, ListDepth - 1), ListNames)
  \/ DeleteBucket(NearPaths(db, ListNames, ListDepth))
  \/ ExportBucket
  \/ Return

SpecExport == Init /\ [][NextExport]_vars

WriteNames == {KeyLa, KeyLb}

\* every path of at most n names from N, the empty path among them
RECURSIVE AllPaths(_, _)
AllPaths(N, n) ==
  IF n = 0 THEN {<<>>}
  ELSE AllPaths(N, n - 1) \cup {Append(q, k) : q \in AllPaths(N, n - 1), k \in N}

\* the caller repeats the write that has just succeeded, with the same
\* arguments
WriteAgain ==
  /\ call.cmd = "write"
  /\ out.exit = 0
  /\ "again" \notin DOMAIN call
  /\ db' = WriteRun(db, call).db
  /\ call' = [x \in DOMAIN call \cup {"again"} |-> IF x = "again" THEN TRUE ELSE call[x]]
  /\ out' = WriteOut(WriteRun(db, call))
  /\ chain' = NoChain

\* the write operations with any path, existing or not, and with the key or
\* the value left out
NextWrite ==
  \/ CreateBucket(AllPaths(WriteNames, WriteDepth))
  \/ PutKeyValue(AllPaths(WriteNames, WriteDepth - 1), WriteNames \cup {<<>>},
                 {Val1, Val2, <<>>})
  \/ DeleteKey(AllPaths(WriteNames, WriteDepth - 1), WriteNames \cup {<<>>})
  \/ DeleteBucket(AllPaths(WriteNames, WriteDepth))
  \/ WriteAgain
  \/ Return

SpecWrite == Init /\ [][NextWrite]_vars

-----------------------------------------------------------------------------
(* The helper's entry point: main dispatches on the subcommand.  The       *)
(* client runs one helper process for each request.                        *)

\* main.go lines 24-65: the switch on the subcommand of the invocation c on
\* the store d; the result is the store afterwards and what was printed
Main(d, c) ==
  CASE c.cmd = "lsk" ->
         [db |-> d, out |-> LskRun(d, c.path, c.prefix, c.limit, c.afterKey)]
    [] c.cmd = "get" ->
         [db |-> d, out |-> GetRun(d, c.path, c.key, c.mode, c.n, c.out)]
    [] c.cmd = "export" ->
         [db |-> d, out |-> ExportRun(d, c.path, c.out, c.prefix)]
    [] c.cmd = "search" ->
         [db |-> d, out |-> SearchRun(d, c.query, c.limit, c.caseSensitive)]
    [] OTHER ->
         [db |-> d, out |-> [exit |-> 1, err |-> "unknown subcommand"]]

\* execJson: the helper is run with the arguments c
ExecJson(c) ==
  /\ Idle
  /\ call' = c
  /\ db' = Main(db, c).db
  /\ out' = Main(db, c).out
  /\ chain' = NoChain

\* boltClient.ts: the write operations and listKeys of the client
RequestCreateBucket ==
  \E p \in AllPaths(WriteNames, MaxNav + 1) :
    ExecJson([cmd |-> "write", op |-> "create-bucket", path |-> Join(p)])

RequestPutKeyValue ==
  \E p \in AllPaths(WriteNames, MaxNav), k \in Base64Of(WriteNames),
     v \in Base64Of({Val1, Val2}) :
    ExecJson([cmd |-> "write", op |-> "put", path |-> Join(p), key |-> k, value |-> v])

RequestDeleteKey ==
  \E p \in AllPaths(WriteNames, MaxNav), k \in Base64Of(WriteNames) :
    ExecJson([cmd |-> "write", op |-> "delete-key", path |-> Join(p), key |-> k])

RequestDeleteBucket ==
  \E p \in AllPaths(WriteNames, MaxNav + 1) :
    ExecJson([cmd |-> "write", op |-> "delete-bucket", path |-> Join(p)])

RequestListKeys ==
  \E p \in AllPaths(WriteNames, MaxNav) :
    ExecJson([cmd |-> "lsk", path |-> Join(p), prefix |-> <<>>, limit |-> MaxLimit,
              afterKey |-> <<>>])

\* store files as earlier runs have left them
MainStores ==
  {EmptyStore,
   {BucketEntry(<<KeyLa>>)},
   {BucketEntry(<<KeyLa>>), ValueEntry(<<KeyLa, KeyLb>>, Val1)},
   {BucketEntry(<<KeyLa>>), BucketEntry(<<KeyLa, KeyLb>>)}}

InitMain ==
  /\ db \in MainStores
  /\ call = NoCall
  /\ out = NoOut
  /\ chain = NoChain

NextMain ==
  \/ RequestCreateBucket
  \/ RequestPutKeyValue
  \/ RequestDeleteKey
  \/ RequestDeleteBucket
  \/ RequestListKeys
  \/ Return

SpecMain == InitMain /\ [][NextMain]_vars

-----------------------------------------------------------------------------
(* The read subcommands on a store file.  The store is the contents of the *)
(* file at DbPath; save and export create their output file by name, and   *)
(* the name may be that of the store file.                                 *)

\* the store file of the helper's runs
DbPath == "db"

\* the files a caller names as output: another file or the store file
OutFiles == {"out", DbPath}

\* common.CmdMeta (the size of the file is not modelled)
CmdMeta(dbPath) == [exit |-> 0, ok |-> TRUE, path |-> dbPath]

\* common.CmdListBuckets: the names of the buckets at the path, in key order
CmdListBuckets(d, path) ==
  LET b == IF Len(path) = 0 THEN <<>> ELSE BucketAtPath(d, path)
      names == SelectSeq(CursorKeys(d, b), LAMBDA k : IsBucketAt(d, Append(b, k)))
  IN IF b = Nil THEN [exit |-> 0, error |-> "bucket not found"]
     ELSE [exit |-> 0, buckets |-> [i \in 1..Len(names) |-> EncodeToString(names[i])]]

\* the run ended by a fault on a page of the mapped store file that is no
\* longer in the file
Fault == [exit |-> 2, err |-> "unexpected fault address"]

\* os.Create(outFile) while the store file at dbPath is open and mapped, and
\* what follows it, o being what the run prints when nothing goes wrong and
\* reads whether it then reads the mapped file.  With another file the store
\* is as it was.  With the store file itself the outcome depends on the
\* system: the file is truncated and the store has lost its entries, and a
\* later read of the mapping faults; or the system refuses to truncate a
\* mapped file and the run fails with the store as it was.
Create(d, dbPath, outFile, o, reads) ==
  IF outFile # dbPath THEN {[db |-> d, out |-> o]}
  ELSE {[db |-> EmptyStore, out |-> IF reads THEN Fault ELSE o],
        [db |-> d, out |-> [exit |-> 1, err |-> "create out"]]}

\* get.Run on the store file: the file of save is created after the
\* transaction (lines 238-241); the value read is a slice of the mapping
GetFile(d, dbPath, bucketPath, keyBase64, mode, n, outFile) ==
  LET o == GetRun(d, bucketPath, keyBase64, mode, n, outFile)
  IN IF keyBase64 # <<>> /\ mode = "save" /\ outFile # ""
     THEN Create(d, dbPath, outFile, o,
                 ~GetView(d, PathOf(bucketPath), DecodeString(keyBase64)).val.nil)
     ELSE {[db |-> d, out |-> o]}

\* export.Run on the store file: the output file is created before the
\* transaction (part_001 lines 46-52), which then reads the mapping
ExportFile(d, dbPath, bucketPath, outFile, prefix) ==
  LET o == ExportRun(d, bucketPath, outFile, prefix)
  IN IF outFile # "" THEN Create(d, dbPath, outFile, o, TRUE)
     ELSE {[db |-> d, out |-> o]}

\* one run of a subcommand with the arguments c that ends as r
Started(c, r) ==
  /\ Idle
  /\ call' = c
  /\ db' = r.db
  /\ out' = r.out
  /\ chain' = NoChain

\* the paths a caller reads: every path of at most ListDepth names
ReadPaths == AllPaths(WriteNames, ListDepth)

GetMeta ==
  Started([cmd |-> "meta", db |-> DbPath], [db |-> db, out |-> CmdMeta(DbPath)])

ListBuckets ==
  \E p \in ReadPaths :
    Started([cmd |-> "lsb", db |-> DbPath, path |-> Join(p)],
            [db |-> db, out |-> CmdListBuckets(db, PathOf(Join(p)))])

ReadKeys ==
  \E p \in ReadPaths, prefix \in {<<>>, KeyLa}, limit \in 1..MaxLimit,
     afterKey \in {<<>>} \cup Base64Of(WriteNames) :
    Started([cmd |-> "lsk", db |-> DbPath, path |-> Join(p), prefix |-> prefix,
             limit |-> limit, afterKey |-> afterKey],
            [db |-> db, out |-> LskRun(db, Join(p), prefix, limit, afterKey)])

ReadSearch ==
  \E query \in WriteNames \cup {<<>>}, caseSensitive \in BOOLEAN :
    Started([cmd |-> "search", db |-> DbPath, query |-> query, limit |-> MaxLimit,
             caseSensitive |-> caseSensitive],
            [db |-> db, out |-> SearchRun(db, query, MaxLimit, caseSensitive)])

ReadValue ==
  \E p \in ReadPaths, k \in Base64Of(WriteNames) \cup {<<>>}, mode \in {"head", "save"},
     outFile \in OutFiles \cup {""} :
    /\ (mode = "head") <=> (outFile = "")
    /\ \E r \in GetFile(db, DbPath, Join(p), k, mode, MaxHead, outFile) :
         Started([cmd |-> "get", db |-> DbPath, path |-> Join(p), key |-> k,
                  mode |-> mode, n |-> MaxHead, out |-> outFile], r)

ReadExport ==
  \E p \in ReadPaths, prefix \in {<<>>, KeyLa}, outFile \in OutFiles :
    \E r \in ExportFile(db, DbPath, Join(p), outFile, prefix) :
      Started([cmd |-> "export", db |-> DbPath, path |-> Join(p), prefix |-> prefix,
               out |-> outFile], r)

NextRead ==
  \/ CreateBucket(NearPaths(db, WriteNames, ListDepth))
  \/ PutKeyValue(NearPaths(db, WriteNames, ListDepth - 1), WriteNames, {Val1})
  \/ GetMeta
  \/ ListBuckets
  \/ ReadKeys
  \/ ReadSearch
  \/ ReadValue
  \/ ReadExport
  \/ Return

SpecRead == Init /\ [][NextRead]_vars

-----------------------------------------------------------------------------
(* Helper processes running at the same time on one store file.  Here call *)
(* and out are functions of the process: call[p] is the invocation of p    *)
(* with its position pc, out[p] what p has printed.  A reader copies the   *)
(* entries of the file one at a time (copy) and prints the result of its   *)
(* command on what it has copied; seen is the set of the committed states  *)
(* of the file since the reader opened it.                                 *)

Procs == 1..NumProcs

\* the modes in which the processes other than p hold the file locked
HeldBy(c, p) ==
  {IF c[q].cmd = "write" THEN "EX" ELSE "SH" : q \in {r \in Procs \ {p} : c[r].cmd # "none"}}

\* a lock granted whatever the others hold
Flock_Always(held, mode) == TRUE

\* flock in bbolt.Open: an exclusive lock needs the file unlocked, a shared
\* lock needs it free of an exclusive lock; the caller waits until then
Flock(held, mode) == IF mode = "EX" THEN held = {} ELSE "EX" \notin held

\* the write invocations of the processes
ConcWrites(d) ==
  {[cmd |-> "write", op |-> "create-bucket", path |-> Join(q)] :
     q \in NearPaths(d, WriteNames, 2)}
    \cup {[cmd |-> "write", op |-> "delete-bucket", path |-> Join(q)] : q \in PathsOf(d)}
    \cup {[cmd |-> "write", op |-> "put", path |-> Join(<<n>>),
           key |-> EncodeToString(k), value |-> EncodeToString(Val1)] :
            n \in WriteNames, k \in WriteNames}

\* write.Run, line 30: bbolt.Open in read-write mode
OpenRW(p) ==
  /\ call[p].cmd = "none"
  /\ Flock(HeldBy(call, p), "EX")
  /\ call' = [call EXCEPT ![p] = [cmd |-> "write", pc |-> "open"]]
  /\ UNCHANGED <<db, out, chain>>

\* the readers that have the file open see the state a writer commits
Seeing(c, d) ==
  [q \in Procs |-> IF c[q].cmd = "read" /\ c[q].pc = "open"
                   THEN [c[q] EXCEPT !.seen = @ \cup {d}] ELSE c[q]]

\* write.Run, lines 36-53: the operation in its Update transaction, committed
\* or rolled back, and the answer
Update(p) ==
  \E c \in ConcWrites(db) :
    /\ call[p].cmd = "write"
    /\ call[p].pc = "open"
    /\ Cardinality(WriteRun(db, c).db) <= MaxEntries
    /\ db' = WriteRun(db, c).db
    /\ call' = [Seeing(call, db') EXCEPT
                  ![p] = [cmd |-> "write", pc |-> "done", op |-> c.op, path |-> c.path]]
    /\ out' = [out EXCEPT ![p] = WriteOut(WriteRun(db, c))]
    /\ UNCHANGED chain

ReadCmds == {"lsk", "search", "get"}

\* common.OpenDB: bbolt.Open in read-only mode, then db.View begins
OpenRO(p) ==
  \E cmd \in ReadCmds :
    /\ call[p].cmd = "none"
    /\ Flock(HeldBy(call, p), "SH")
    /\ call' = [call EXCEPT ![p] = [cmd |-> "read", pc |-> "open", read |-> cmd,
                                    copy |-> EmptyStore, seen |-> {db}]]
    /\ UNCHANGED <<db, out, chain>>

\* the entries of d that are not in the copy c yet
Unread(d, c) == {e \in d : e.path \notin PathsOf(c)}

\* inside db.View: the reader comes to the next entry of the file it has not
\* met, a bucket before its entries and the entries of a bucket in key order
ReadStep(p) ==
  /\ call[p].cmd = "read"
  /\ call[p].pc = "open"
  /\ \E e \in Unread(db, call[p].copy) :
       /\ \A f \in Unread(db, call[p].copy) :
            f = e \/ BytesLess(Join(e.path), Join(f.path))
       /\ call' = [call EXCEPT ![p].copy = @ \cup {e}]
  /\ UNCHANGED <<db, out, chain>>

\* what the command cmd prints for the store d
ReadOut(cmd, d) ==
  CASE cmd = "lsk" -> LskRun(d, <<>>, <<>>, MaxLimit, <<>>)
    [] cmd = "search" -> SearchRun(d, KeyLa, MaxLimit, FALSE)
    [] cmd = "get" -> GetRun(d, KeyLa, EncodeToString(KeyLb), "head", MaxHead, "")

\* the reader has met every entry: db.View ends and the result is printed
Finish(p) ==
  /\ call[p].cmd = "read"
  /\ call[p].pc = "open"
  /\ PathsOf(db) \subseteq PathsOf(call[p].copy)
  /\ call' = [call EXCEPT ![p].pc = "done"]
  /\ out' = [out EXCEPT ![p] = ReadOut(call[p].read, call[p].copy)]
  /\ UNCHANGED <<db, chain>>

\* the process ends: db.Close releases the lock
Exit(p) ==
  /\ call[p].cmd # "none"
  /\ call[p].pc = "done"
  /\ call' = [call EXCEPT ![p] = NoCall]
  /\ out' = [out EXCEPT ![p] = NoOut]
  /\ UNCHANGED <<db, chain>>

InitConc ==
  /\ db = EmptyStore
  /\ call = [p \in Procs |-> NoCall]
  /\ out = [p \in Procs |-> NoOut]
  /\ chain = NoChain

NextConc ==
  \E p \in Procs :
    \/ OpenRW(p)
    \/ Update(p)
    \/ OpenRO(p)
    \/ ReadStep(p)
    \/ Finish(p)
    \/ Exit(p)

SpecConc == InitConc /\ [][NextConc]_vars

-----------------------------------------------------------------------------
(* The webview: the component App of index.tsx.  Here call is the state of *)
(* the component (its useState hooks) and out the messages that the last   *)
(* event has posted to the extension host, in order.  An event of a        *)
(* control is enabled while the control is rendered.                       *)

\* null and undefined
Null == [null |-> TRUE]

\* String.prototype.trim, for the space
RECURSIVE Trim(_)
Trim(s) ==
  IF s = <<>> THEN s
  ELSE IF Head(s) = 32 THEN Trim(Tail(s))
  ELSE IF s[Len(s)] = 32 THEN Trim(SubSeq(s, 1, Len(s) - 1))
  ELSE s

\* what the user types as a name: nothing, a space or a name
WebNames == {<<>>, <<32>>, KeyLa}

\* what the user types as a value
WebValues == {<<>>, Val1}

\* the rows of the table that the user clicks: a value and a bucket
WebKeys ==
  {[keyBase64 |-> EncodeToString(KeyLa), isBucket |-> FALSE],
   [keyBase64 |-> EncodeToString(KeyLb), isBucket |-> TRUE]}

\* lines 548-568: the state of App when mounted
AppState ==
  [currentPath |-> <<>>, selectedKey |-> Null, preview |-> Null,
   isWriteMode |-> FALSE, showAddBucketForm |-> FALSE, showAddKeyForm |-> FALSE,
   newBucketName |-> <<>>, newKeyName |-> <<>>, newKeyValue |-> <<>>,
   isEditingValue |-> FALSE, editedValue |-> <<>>, confirmDelete |-> Null]

\* an event that leaves the component in state s, having posted msgs
Rendered(s, msgs) ==
  /\ call' = s
  /\ out' = msgs
  /\ UNCHANGED <<db, chain>>

\* the path of the entry called name in the container shown
PathUnder(currentPath, name) ==
  IF currentPath # <<>> THEN currentPath \o <<Slash>> \o name ELSE name

\* lines 1112-1118: the Write Mode switch
setIsWriteMode ==
  \E checked \in BOOLEAN :
    /\ checked # call.isWriteMode
    /\ Rendered([call EXCEPT !.isWriteMode = checked], <<>>)

\* lines 1235-1250: the buttons Add Bucket and Add Key
toggleAddBucketForm ==
  /\ call.isWriteMode
  /\ Rendered([call EXCEPT !.showAddBucketForm = ~@], <<>>)

toggleAddKeyForm ==
  /\ call.isWriteMode
  /\ call.currentPath # <<>>
  /\ Rendered([call EXCEPT !.showAddKeyForm = ~@], <<>>)

\* the add-bucket form is shown (line 1255)
AddBucketFormShown == call.isWriteMode /\ call.showAddBucketForm

\* the add-key form is shown (line 1273)
AddKeyFormShown == call.isWriteMode /\ call.showAddKeyForm /\ call.currentPath # <<>>

\* lines 1257-1265 and 1275-1296: typing in the forms, and Escape
setNewBucketName ==
  \E n \in WebNames :
    /\ AddBucketFormShown
    /\ Rendered([call EXCEPT !.newBucketName = n], <<>>)

setNewKeyName ==
  \E n \in WebNames :
    /\ AddKeyFormShown
    /\ Rendered([call EXCEPT !.newKeyName = n], <<>>)

setNewKeyValue ==
  \E v \in WebValues :
    /\ AddKeyFormShown
    /\ Rendered([call EXCEPT !.newKeyValue = v], <<>>)

escapeAddBucketForm ==
  /\ AddBucketFormShown
  /\ Rendered([call EXCEPT !.showAddBucketForm = FALSE], <<>>)

escapeAddKeyForm ==
  /\ AddKeyFormShown
  /\ Rendered([call EXCEPT !.showAddKeyForm = FALSE], <<>>)

\* lines 612-626, by Enter or the button Create Bucket of the form
handleCreateBucket ==
  /\ AddBucketFormShown
  /\ IF Trim(call.newBucketName) = <<>> THEN Rendered(call, <<>>)
     ELSE Rendered([call EXCEPT !.newBucketName = <<>>, !.showAddBucketForm = FALSE],
                   <<[type |-> "createBucket",
                      bucketPath |-> PathUnder(call.currentPath, Trim(call.newBucketName))]>>)

\* lines 628-662, by Enter or the button Add Key of the form
handlePutKey ==
  /\ AddKeyFormShown
  /\ IF Trim(call.newKeyName) = <<>> \/ call.currentPath = <<>> THEN Rendered(call, <<>>)
     ELSE Rendered([call EXCEPT !.newKeyName = <<>>, !.newKeyValue = <<>>,
                                !.showAddKeyForm = FALSE],
                   <<[type |-> "putKey", bucketPath |-> call.currentPath,
                      keyBase64 |-> EncodeToString(Trim(call.newKeyName)),
                      valueBase64 |-> EncodeToString(call.newKeyValue)]>>)

\* lines 1039-1058: a click on a row of the table; a bucket is entered and
\* its keys are asked for, the head of a value is asked for
handleKeyClick ==
  \E key \in WebKeys :
    /\ key.isBucket \/ call.currentPath # <<>>
    /\ key.isBucket
         => Len(Split(PathUnder(call.currentPath, DecodeString(key.keyBase64)))) <= MaxNav
    /\ LET s == [call EXCEPT !.selectedKey = key, !.isEditingValue = FALSE,
                             !.editedValue = <<>>]
           newPath == PathUnder(call.currentPath, DecodeString(key.keyBase64))
       IN IF key.isBucket
          THEN Rendered([s EXCEPT !.currentPath = newPath, !.preview = Null],
                        <<[type |-> "listKeys", bucketPath |-> newPath]>>)
          ELSE Rendered(s, <<[type |-> "readHead", bucketPath |-> call.currentPath,
                              keyBase64 |-> key.keyBase64]>>)

\* lines 1086-1093: the root of the breadcrumb
navigateToRoot ==
  /\ call.currentPath \in Seq(0..255)
  /\ Rendered([call EXCEPT !.currentPath = <<>>, !.selectedKey = Null, !.preview = Null],
           <<[type |-> "listKeys", bucketPath |-> <<>>]>>)

\* lines 874-887: the host answers readHead with the head of the value
headReceived ==
  \E content \in {Val1} :
    /\ call.selectedKey # Null
    /\ ~call.selectedKey.isBucket
    /\ Rendered([call EXCEPT !.preview = [content |-> content]], <<>>)

\* lines 1346-1356 with 664-698: the button Delete of the selected entry
handleDeleteKey ==
  /\ call.selectedKey # Null
  /\ call.isWriteMode
  /\ ~call.selectedKey.isBucket
  /\ Rendered([call EXCEPT !.confirmDelete =
                 [item |-> call.selectedKey, type |-> "key",
                  name |-> DecodeString(call.selectedKey.keyBase64)]], <<>>)

handleDeleteBucket ==
  /\ call.selectedKey # Null
  /\ call.isWriteMode
  /\ call.selectedKey.isBucket
  /\ Rendered([call EXCEPT !.confirmDelete =
                 [item |-> call.selectedKey, type |-> "bucket",
                  name |-> DecodeString(call.selectedKey.keyBase64),
                  path |-> call.currentPath]], <<>>)

\* lines 700-724 and 1447-1469: the button Delete of the confirmation dialog
handleConfirmDelete ==
  /\ call.confirmDelete # Null
  /\ Rendered([call EXCEPT !.selectedKey = Null, !.preview = Null, !.confirmDelete = Null],
              IF call.confirmDelete.type = "key"
              THEN <<[type |-> "deleteKey", bucketPath |-> call.currentPath,
                      keyBase64 |-> call.confirmDelete.item.keyBase64]>>
              ELSE <<[type |-> "deleteBucket", bucketPath |-> call.currentPath]>>)

\* lines 726-728
handleCancelDelete ==
  /\ call.confirmDelete # Null
  /\ Rendered([call EXCEPT !.confirmDelete = Null], <<>>)

\* the value of the selected key is shown (lines 1340, 1369-1374)
ValueShown ==
  /\ call.selectedKey # Null
  /\ ~call.selectedKey.isBucket
  /\ call.preview # Null

\* lines 730-734 and 1407-1414: the button Edit
handleEditValue ==
  /\ ValueShown
  /\ ~call.isEditingValue
  /\ call.isWriteMode
  /\ Rendered([call EXCEPT !.isEditingValue = TRUE, !.editedValue = call.preview.content],
              <<>>)

\* lines 1387-1392: typing in the editor
setEditedValue ==
  \E v \in WebValues :
    /\ ValueShown
    /\ call.isEditingValue
    /\ Rendered([call EXCEPT !.editedValue = v], <<>>)

\* lines 736-742 and 1376-1383: the button Save of the editor
handleSaveValue ==
  /\ ValueShown
  /\ call.isEditingValue
  /\ Rendered([call EXCEPT !.isEditingValue = FALSE],
              <<[type |-> "putKey", bucketPath |-> call.currentPath,
                 keyBase64 |-> call.selectedKey.keyBase64,
                 valueBase64 |-> EncodeToString(call.editedValue)]>>)

\* lines 744-747 and 1384-1386: the button Cancel of the editor
handleCancelEdit ==
  /\ ValueShown
  /\ call.isEditingValue
  /\ Rendered([call EXCEPT !.isEditingValue = FALSE, !.editedValue = <<>>], <<>>)

InitWeb ==
  /\ db = EmptyStore
  /\ call = AppState
  /\ out = <<>>
  /\ chain = NoChain

NextWeb ==
  \/ setIsWriteMode
  \/ toggleAddBucketForm
  \/ toggleAddKeyForm
  \/ setNewBucketName
  \/ setNewKeyName
  \/ setNewKeyValue
  \/ escapeAddBucketForm
  \/ escapeAddKeyForm
  \/ handleCreateBucket
  \/ handlePutKey
  \/ handleKeyClick
  \/ navigateToRoot
  \/ headReceived
  \/ handleDeleteKey
  \/ handleDeleteBucket
  \/ handleConfirmDelete
  \/ handleCancelDelete
  \/ handleEditValue
  \/ setEditedValue
  \/ handleSaveValue
  \/ handleCancelEdit

SpecWeb == InitWeb /\ [][NextWeb]_vars

-----------------------------------------------------------------------------
(* The webview with the extension host and the helper behind it.  Here     *)
(* call is the state of App with the pending highlight (a ref), out is the *)
(* set of the messages posted to the host that it has not answered yet,    *)
(* and db is the store file of the panel.  The host handles each message   *)
(* in an asynchronous handler of its own, so it answers in any order.      *)

\* the store of the panel: the containers a and b; a holds three values and
\* b holds one value
PanelStore ==
  {BucketEntry(<<KeyLa>>), BucketEntry(<<KeyLb>>),
   ValueEntry(<<KeyLa, KeyLa>>, Val1), ValueEntry(<<KeyLa, KeyLab>>, Val2),
   ValueEntry(<<KeyLa, KeyLb>>, Val1),
   ValueEntry(<<KeyLb, KeyLa>>, Val2)}

\* what the user searches for
PanelQueries == {KeyLab}

\* lines 548-568 and 751-753, and the effect of lines 779-1036 when mounted:
\* the listener is installed and the keys of the root are asked for
PanelState ==
  [currentPath |-> <<>>, keys |-> <<>>, nextAfterKey |-> <<>>, selectedKey |-> Null,
   preview |-> Null, error |-> Null, searchResults |-> <<>>, isSearching |-> FALSE,
   isLoading |-> TRUE, isWriteMode |-> FALSE, confirmDelete |-> Null,
   pendingHighlight |-> Null]

ListKeysMsg(bucketPath, afterKey) ==
  [type |-> "listKeys", bucketPath |-> bucketPath, afterKey |-> afterKey]

ReadHeadMsg(bucketPath, keyBase64) ==
  [type |-> "readHead", bucketPath |-> bucketPath, keyBase64 |-> keyBase64]

\* lines 573-601: loadKeys as defined by a render in which currentPath was
\* seen; the state after it (the timer is the action LoadingTimeout)
LoadKeys(s, bucketPath, seen) ==
  [s EXCEPT !.isLoading = TRUE, !.error = Null,
            !.currentPath = IF bucketPath # seen THEN bucketPath ELSE @]

\* an event of the user that leaves the component in state s, having posted
\* the messages msgs
Handled(s, msgs) ==
  /\ Cardinality(out \cup msgs) <= MaxPending
  /\ call' = s
  /\ out' = out \cup msgs
  /\ UNCHANGED <<db, chain>>

\* lines 597-600: the timer of loadKeys stops the loading indicator
LoadingTimeout ==
  /\ call.isLoading
  /\ Handled([call EXCEPT !.isLoading = FALSE], {})

\* lines 1039-1058: a click on a row of the table
HandleKeyClick ==
  \E i \in 1..Len(call.keys) :
    LET key == call.keys[i]
        s == [call EXCEPT !.selectedKey = key, !.error = Null,
                          !.pendingHighlight = Null]
        newPath == PathUnder(call.currentPath, DecodeString(key.keyBase64))
    IN /\ ~call.isLoading
       /\ IF key.isBucket
          THEN Handled(LoadKeys([s EXCEPT !.currentPath = newPath, !.keys = <<>>,
                                          !.nextAfterKey = <<>>, !.preview = Null],
                                newPath, call.currentPath),
                       {ListKeysMsg(newPath, <<>>)})
          ELSE Handled(s, {ReadHeadMsg(call.currentPath, key.keyBase64)})

\* lines 1086-1093: the button Root of the breadcrumb
NavigateToRoot ==
  Handled(LoadKeys([call EXCEPT !.currentPath = <<>>, !.keys = <<>>,
                                !.nextAfterKey = <<>>, !.selectedKey = Null,
                                !.preview = Null],
                   <<>>, call.currentPath),
          {ListKeysMsg(<<>>, <<>>)})

\* lines 1126-1146: a button of the breadcrumb, for the first i names of
\* currentPath
NavigateToPart ==
  \E i \in 1..Len(PathOf(call.currentPath)) :
    LET pathUpToHere == Join(SubSeq(PathOf(call.currentPath), 1, i))
    IN Handled(LoadKeys([call EXCEPT !.currentPath = pathUpToHere, !.selectedKey = Null,
                                     !.preview = Null],
                        pathUpToHere, call.currentPath),
               {ListKeysMsg(pathUpToHere, <<>>)})

\* line 1335: the button Load More
LoadMore ==
  /\ ~call.isLoading
  /\ call.nextAfterKey # <<>>
  /\ Handled(LoadKeys(call, call.currentPath, call.currentPath),
             {ListKeysMsg(call.currentPath, call.nextAfterKey)})

\* lines 603-610 with 1157-1164: the user types a query and searches
HandleSearch ==
  \E query \in PanelQueries :
    Handled([call EXCEPT !.isSearching = TRUE],
            {[type |-> "search", query |-> Trim(query), limit |-> SearchLimit,
              caseSensitive |-> FALSE]})

\* lines 755-775: a click on a search result
NavigateToSearchResult ==
  \E i \in 1..Len(call.searchResults) :
    LET result == call.searchResults[i]
        bucketPath == Join(result.path)
        s == [call EXCEPT !.currentPath = bucketPath, !.preview = Null,
                          !.searchResults = <<>>]
    IN Handled(LoadKeys(IF ~result.isBucket
                        THEN [s EXCEPT !.pendingHighlight =
                                [bucketPath |-> bucketPath, keyBase64 |-> result.keyBase64,
                                 valueSize |-> result.valueSize]]
                        ELSE [s EXCEPT !.pendingHighlight = Null, !.selectedKey = Null],
                        bucketPath, call.currentPath),
               {ListKeysMsg(bucketPath, <<>>)})

\* lines 1112-1118: the Write Mode switch
SetIsWriteMode ==
  \E checked \in BOOLEAN :
    /\ checked # call.isWriteMode
    /\ Handled([call EXCEPT !.isWriteMode = checked], {})

\* lines 1346-1356 with 664-698: the button Delete of the selected entry
HandleDeleteKey ==
  /\ call.selectedKey # Null
  /\ call.isWriteMode
  /\ ~call.selectedKey.isBucket
  /\ Handled([call EXCEPT !.confirmDelete =
                [item |-> call.selectedKey, type |-> "key",
                 name |-> DecodeString(call.selectedKey.keyBase64)]], {})

HandleDeleteBucket ==
  /\ call.selectedKey # Null
  /\ call.isWriteMode
  /\ call.selectedKey.isBucket
  /\ Handled([call EXCEPT !.confirmDelete =
                [item |-> call.selectedKey, type |-> "bucket",
                 name |-> DecodeString(call.selectedKey.keyBase64),
                 path |-> call.currentPath]], {})

\* lines 700-724: the button Delete of the confirmation dialog
HandleConfirmDelete ==
  /\ call.confirmDelete # Null
  /\ Handled([call EXCEPT !.selectedKey = Null, !.preview = Null, !.confirmDelete = Null],
             IF call.confirmDelete.type = "key"
             THEN {[type |-> "deleteKey", bucketPath |-> call.currentPath,
                    keyBase64 |-> call.confirmDelete.item.keyBase64]}
             ELSE {[type |-> "deleteBucket", bucketPath |-> call.currentPath]})

\* lines 726-728
HandleCancelDelete ==
  /\ call.confirmDelete # Null
  /\ Handled([call EXCEPT !.confirmDelete = Null], {})

\* the host has handled the message m: the listener of the webview has left
\* the component in state s and posted the messages msgs
Answered(m, s, msgs) ==
  /\ call' = s
  /\ out' = (out \ {m}) \cup msgs
  /\ UNCHANGED <<db, chain>>

\* the first item of a page with the key, Null when there is none
Find(items, keyBase64) ==
  LET at == {i \in 1..Len(items) : items[i].keyBase64 = keyBase64}
  IN IF at = {} THEN Null ELSE items[Min(at)]

\* lines 798-873: the listener on a message keys, which is the result res of
\* the helper and carries neither bucketPath nor afterKey (extension.ts line
\* 86).  The listener is that of the first render (line 1036): the currentPath
\* it sees and the one its loadKeys sees are those of the first render.  The
\* result is the state and the messages posted.
OnKeys(s, res) ==
  LET responseBucketPath == <<>>
      seen == PanelState.currentPath
      shown == [s EXCEPT !.currentPath = IF seen # responseBucketPath
                                          THEN responseBucketPath ELSE @,
                         !.keys = res.items, !.nextAfterKey = res.nextAfterKey,
                         !.isLoading = FALSE]
      pending == s.pendingHighlight
      foundInPage == Find(res.items, pending.keyBase64)
  IN IF pending = Null THEN [s |-> shown, msgs |-> {}]
     \* lines 827-831: items is null when the page is empty, and the listener
     \* ends with a TypeError
     ELSE IF res.items = <<>> THEN [s |-> shown, msgs |-> {}]
     ELSE IF foundInPage # Null
       THEN [s |-> [shown EXCEPT !.selectedKey = foundInPage, !.pendingHighlight = Null],
             msgs |-> {ReadHeadMsg(pending.bucketPath, pending.keyBase64)}]
     ELSE IF res.nextAfterKey # <<>>
       THEN [s |-> LoadKeys(shown, responseBucketPath, seen),
             msgs |-> {ListKeysMsg(responseBucketPath, res.nextAfterKey)}]
     ELSE [s |-> [shown EXCEPT !.selectedKey =
                    [keyBase64 |-> pending.keyBase64,
                     valueSize |-> IF pending.valueSize = 0 THEN 1 ELSE pending.valueSize,
                     isBucket |-> FALSE],
                  !.pendingHighlight = Null],
           msgs |-> {ReadHeadMsg(pending.bucketPath, pending.keyBase64)}]

\* extension.ts line 86 with boltClient.ts lines 68-79: the page of at most
\* PageLimit keys that answers the request m
Page(m) == LskRun(db, m.bucketPath, <<>>, PageLimit, m.afterKey)

\* extension.ts line 87: the page is posted and the listener handles it
KeysPosted(m) ==
  LET r == OnKeys(call, Page(m))
  IN Answered(m, r.s, r.msgs)

\* extension.ts lines 85-87: listKeys
HostListKeys ==
  \E m \in out :
    /\ m.type = "listKeys"
    /\ KeysPosted(m)

\* extension.ts lines 88-90 and index.tsx lines 874-887: readHead; the
\* selectedKey that the listener sees is that of the first render, null
HostReadHead ==
  \E m \in out :
    /\ m.type = "readHead"
    /\ LET res == GetRun(db, m.bucketPath, m.keyBase64, "head", DefaultN, "")
       IN Answered(m, [call EXCEPT !.preview =
                         [content |-> DecodeString(res.valueHeadBase64),
                          totalSize |-> res.totalSize]], {})

\* extension.ts lines 99-101 and index.tsx lines 892-894: search
HostSearch ==
  \E m \in out :
    /\ m.type = "search"
    /\ LET res == SearchRun(db, m.query, m.limit, m.caseSensitive)
       IN Answered(m, [call EXCEPT !.searchResults =
                         [i \in 1..Len(res.items) |->
                            [x \in DOMAIN res.items[i] |-> res.items[i][x]]],
                       !.isSearching = FALSE], {})

\* extension.ts lines 103-105 and index.tsx lines 888-891: the helper has
\* failed (it could not open the store file) and the host posts an error
HostError ==
  \E m \in out :
    /\ m.type \in {"listKeys", "readHead", "search"}
    /\ Answered(m, [call EXCEPT !.error = [message |-> "open db"], !.isLoading = FALSE], {})

\* extension.ts lines 84-102: a message of another type meets no branch of
\* the handler, which returns without posting
HostIgnores ==
  \E m \in out :
    /\ m.type \notin {"listKeys", "readHead", "saveValue", "listBuckets", "search"}
    /\ Answered(m, call, {})

InitPanel ==
  /\ db = PanelStore
  /\ call = PanelState
  /\ out = {ListKeysMsg(<<>>, <<>>)}
  /\ chain = NoChain

\* extension.ts lines 83-106: the host answers a request for data
Host ==
  \/ HostListKeys
  \/ HostReadHead
  \/ HostSearch
  \/ HostError

\* the panel in which the user browses and searches
NextPanel ==
  \/ LoadingTimeout
  \/ HandleKeyClick
  \/ NavigateToRoot
  \/ NavigateToPart
  \/ LoadMore
  \/ HandleSearch
  \/ NavigateToSearchResult
  \/ Host

SpecPanel == InitPanel /\ [][NextPanel]_vars

\* the panel in which the user browses, searches and deletes, over a store
\* file that the helper can open
NextDelete ==
  \/ HandleKeyClick
  \/ NavigateToRoot
  \/ NavigateToPart
  \/ HandleSearch
  \/ NavigateToSearchResult
  \/ SetIsWriteMode
  \/ HandleDeleteKey
  \/ HandleDeleteBucket
  \/ HandleConfirmDelete
  \/ HandleCancelDelete
  \/ HostListKeys
  \/ HostReadHead
  \/ HostSearch
  \/ HostIgnores

SpecDelete == InitPanel /\ [][NextDelete]_vars

-----------------------------------------------------------------------------
(* Properties of the listing engine *)

RECURSIVE Flatten(_)
Flatten(ps) == IF ps = <<>> THEN <<>> ELSE Head(ps) \o Flatten(Tail(ps))

EncodeAll(keys) == [i \in 1..Len(keys) |-> EncodeToString(keys[i])]

StrictlyIncreasing(ks) ==
  \A i, j \in 1..Len(ks) : i < j => BytesLess(DecodeString(ks[i]), DecodeString(ks[j]))

FirstN(q, n) == SubSeq(q, 1, IF n < Len(q) THEN n ELSE Len(q))

IsLsk == call.cmd = "lsk"

AtRoot == IsLsk /\ PathOf(call.path) = <<>>

AtBucket ==
  /\ IsLsk
  /\ PathOf(call.path) # <<>>
  /\ BucketAtPath(db, PathOf(call.path)) # Nil

\* the keys of the listed container, in key order
ListedKeys == CursorKeys(db, IF AtRoot THEN <<>> ELSE BucketAtPath(db, PathOf(call.path)))

\* a chain that began without a resumption key and has reached a page that
\* carries no nextAfterKey
ChainExhausted == IsLsk /\ chain.start = <<>> /\ out.nextAfterKey = <<>>

\* C1: the pages of a container, chained through nextAfterKey from the first
\* page to the page without nextAfterKey, with a limit of 1, total or total + 1
\* and no prefix, concatenate to the container's keys in key order: nothing
\* duplicated, nothing omitted.
C1_ContainerPagesCoverAllKeys ==
  (/\ AtBucket
   /\ ChainExhausted
   /\ call.prefix = <<>>
   /\ call.limit \in {1, Len(ListedKeys), Len(ListedKeys) + 1})
  => Flatten(chain.pages) = EncodeAll(ListedKeys)

\* C2: the pages of the root, chained through nextAfterKey from the first page
\* to the page without nextAfterKey, concatenate to the root bucket names in
\* key order: every root bucket exactly once.
C2_RootPagesCoverAllBuckets ==
  (AtRoot /\ ChainExhausted /\ call.prefix = <<>>)
  => Flatten(chain.pages) = EncodeAll(ListedKeys)

\* C3: at the root and in a container the keys of a page are strictly
\* increasing in raw byte order, and along a chain of pages every key of a
\* later page is greater than every key of every earlier page.
C3_PagesStrictlyIncreasing ==
  (AtRoot \/ AtBucket) => StrictlyIncreasing(Flatten(chain.pages))

\* C4: a container listed with a resumption key that is not one of its keys
\* yields a page that starts at the first key greater than the resumption key:
\* no further key is skipped.
C4_AbsentResumptionKeySkipsNothing ==
  (/\ AtBucket
   /\ call.prefix = <<>>
   /\ call.afterKey # <<>>
   /\ DecodeString(call.afterKey) \notin ChildKeys(db, BucketAtPath(db, PathOf(call.path))))
  => PageKeys(out) =
       FirstN(EncodeAll(SelectSeq(ListedKeys,
                                  LAMBDA k : BytesLess(DecodeString(call.afterKey), k))),
              call.limit)

\* C5: the root listed with a resumption key returns only bucket names that
\* are greater than that key; when no bucket name is greater the page is empty
\* and carries no nextAfterKey.
C5_RootResumesStrictlyAfterKey ==
  (AtRoot /\ call.afterKey # <<>>)
  => /\ \A i \in 1..Len(out.items) :
          BytesLess(DecodeString(call.afterKey), DecodeString(out.items[i].keyBase64))
     /\ (\A k \in ChildKeys(db, <<>>) : ~BytesLess(DecodeString(call.afterKey), k))
        => out.items = <<>> /\ out.nextAfterKey = <<>>

\* the root bucket names that start with the prefix of the call, in key order
RootMatches == SelectSeq(ListedKeys, LAMBDA k : HasPrefix(k, call.prefix))

\* C6: the root listed from the start with a prefix and a limit returns at
\* most limit items, each starting with the prefix, and carries a nextAfterKey
\* exactly when a further bucket matching the prefix follows the last item
\* returned; the nextAfterKey is then the name of the first matching bucket
\* that was not returned.
C6_RootPrefixPageAndToken ==
  (AtRoot /\ call.afterKey = <<>>)
  => /\ Len(out.items) <= call.limit
     /\ \A i \in 1..Len(out.items) :
          HasPrefix(DecodeString(out.items[i].keyBase64), call.prefix)
     /\ (out.nextAfterKey # <<>>) <=> (Len(RootMatches) > Len(out.items))
     /\ out.nextAfterKey # <<>>
        => /\ Len(RootMatches) > Len(out.items)
           /\ out.nextAfterKey = EncodeToString(RootMatches[Len(out.items) + 1])

\* C7: lsk on a non-empty path that does not resolve to a bucket fails: it
\* does not end with exit code 0 and a result on standard output.
C7_UnresolvedPathFails ==
  (/\ IsLsk
   /\ PathOf(call.path) # <<>>
   /\ BucketAtPath(db, PathOf(call.path)) = Nil)
  => out.exit # 0

\* C28: every item of a root listing reports as its size the number of the
\* direct entries, values and nested containers together, of the root
\* container it names.
C28_RootSizeCountsDirectEntries ==
  AtRoot
    => \A i \in 1..Len(out.items) :
         /\ out.items[i].isBucket
         /\ out.items[i].valueSize =
              Cardinality({x \in db : /\ Len(x.path) = 2
                                      /\ x.path[1] = DecodeString(out.items[i].keyBase64)})

\* a root listing with an item for a container that holds a value and a
\* nested container, of size 2
C28_Witness ==
  /\ AtRoot
  /\ \E i \in 1..Len(out.items) :
       LET name == DecodeString(out.items[i].keyBase64)
       IN /\ out.items[i].valueSize = 2
          /\ \E k \in ListNames : IsValueAt(db, <<name, k>>)
          /\ \E k \in ListNames : IsBucketAt(db, <<name, k>>)

\* the keys of the listed container that come after the resumption key of the
\* call (all of them when there is none) and start with its prefix, in key order
MatchesAfter ==
  SelectSeq(ListedKeys,
            LAMBDA k : /\ call.afterKey # <<>> => BytesLess(DecodeString(call.afterKey), k)
                       /\ HasPrefix(k, call.prefix))

\* C31: a container listed with a prefix and a limit returns the first limit
\* keys, in key order after the resumption key, that start with the prefix,
\* and carries a nextAfterKey exactly when a further key starting with the
\* prefix follows the page.
C31_ContainerPrefixPageAndToken ==
  AtBucket
    => /\ PageKeys(out) = EncodeAll(FirstN(MatchesAfter, call.limit))
       /\ (out.nextAfterKey # <<>>) <=> (Len(MatchesAfter) > call.limit)

-----------------------------------------------------------------------------
(* Properties of the search engine *)

IsSearch == call.cmd = "search" /\ out.exit = 0

\* the paths of all entries below the container at p in pre-order: an entry
\* before the entries of its subtree, siblings in key order
RECURSIVE PreOrder(_, _, _)
PreOrder(d, p, i) ==
  LET keys == CursorKeys(d, p)
  IN IF i > Len(keys) THEN <<>>
     ELSE <<Append(p, keys[i])>>
            \o (IF IsBucketAt(d, Append(p, keys[i]))
                THEN PreOrder(d, Append(p, keys[i]), 1) ELSE <<>>)
            \o PreOrder(d, p, i + 1)

\* the name contains the query, compared exactly or without regard to case
NameMatches(name, query, caseSensitive) ==
  \E i \in 0..(Len(name) - Len(query)) :
    LET part == SubSeq(name, i + 1, i + Len(query))
    IN IF caseSensitive THEN part = query ELSE ToLower(part) = ToLower(query)

\* the paths of the entries whose name matches the query of the call, in
\* pre-order
MatchPaths ==
  SelectSeq(PreOrder(db, <<>>, 1),
            LAMBDA q : NameMatches(q[Len(q)], call.query, call.caseSensitive))

\* the path of the entry an item stands for
ItemPath(it) == Append(it.path, DecodeString(it.keyBase64))

Range(f) == {f[i] : i \in DOMAIN f}

\* C8: search returns min(limit, M) items, M the number of entries of the
\* whole hierarchy whose name matches the query, and limited is true exactly
\* when the number of items returned equals the limit.
C8_SearchCountAndLimited ==
  IsSearch
  => /\ Len(out.items) = (IF call.limit < Len(MatchPaths) THEN call.limit
                          ELSE Len(MatchPaths))
     /\ out.total = Len(out.items)
     /\ out.limited <=> (Len(out.items) = call.limit)

\* a search cut off by its limit: more entries match than were returned
C8_Witness ==
  /\ IsSearch
  /\ Len(MatchPaths) > call.limit
  /\ Len(out.items) = call.limit
  /\ out.limited

\* C9: with a limit larger than the number of matches, an entry at any depth
\* is returned exactly when its name contains the query, compared without
\* regard to case unless the search is case sensitive.
C9_SearchReturnsExactlyTheMatches ==
  (IsSearch /\ call.limit > Len(MatchPaths))
  => /\ {ItemPath(out.items[i]) : i \in 1..Len(out.items)} = Range(MatchPaths)
     /\ \A q \in PathsOf(db) :
          (q \in {ItemPath(out.items[i]) : i \in 1..Len(out.items)})
            <=> NameMatches(q[Len(q)], call.query, call.caseSensitive)

\* a case-insensitive search that returned an entry below the root whose name
\* differs from the query in case, and left out an entry that does not match
C9_Witness ==
  /\ IsSearch
  /\ ~call.caseSensitive
  /\ call.limit > Len(MatchPaths)
  /\ \E i \in 1..Len(out.items) :
       /\ Len(out.items[i].path) > 0
       /\ ~Contains(DecodeString(out.items[i].keyBase64), call.query)
  /\ \E q \in PathsOf(db) : q \notin Range(MatchPaths)

\* C10: the items are the first limit matches of the pre-order traversal of
\* the hierarchy, in that order: a matching container before the matching
\* entries of its subtree, siblings in key order, every container descended
\* into whether or not its own name matched.
C10_SearchIsPreOrderPrefix ==
  IsSearch
  => [i \in 1..Len(out.items) |-> ItemPath(out.items[i])]
       = FirstN(MatchPaths, call.limit)

\* a search cut off by its limit that returned a container and, after it, an
\* entry of that container
C10_Witness ==
  /\ IsSearch
  /\ Len(MatchPaths) > call.limit
  /\ \E i, j \in 1..Len(out.items) :
       i < j /\ out.items[j].path = ItemPath(out.items[i])

\* C11: the i-th item stands for the i-th matching entry in pre-order: its
\* path is the names of the containers from the root to the entry's parent
\* (empty for a root container), isBucket is true and type is 'bucket' exactly
\* when the entry is a container, and valueSize is the length of the value, 0
\* for a container; no later step of the traversal changes the path.
C11_ItemsCarryPathTypeAndSize ==
  IsSearch
  => /\ Len(out.items) <= Len(MatchPaths)
     /\ \A i \in 1..Len(out.items) :
          LET m == MatchPaths[i]
              e == EntryAt(db, m)
              it == out.items[i]
          IN /\ it.path = SubSeq(m, 1, Len(m) - 1)
             /\ it.keyBase64 = EncodeToString(m[Len(m)])
             /\ it.isBucket = e.isBucket
             /\ (it.type = "bucket") = e.isBucket
             /\ it.type \in {"bucket", "key"}
             /\ it.valueSize = (IF e.isBucket THEN 0 ELSE Len(e.val))

\* a search that returned a value of the fifth level with its size and, after
\* it, a value of a sibling container of the fourth level, the traversal having
\* appended the sibling's name to the same path
C11_Witness ==
  /\ IsSearch
  /\ \E i, j \in 1..Len(out.items) :
       /\ i < j
       /\ Len(out.items[i].path) = 4
       /\ ~out.items[i].isBucket
       /\ out.items[i].valueSize = Len(Val2)
       /\ Len(out.items[j].path) = 4
       /\ out.items[j].path # out.items[i].path

\* C12: at every step of a search the count is at most the limit: an item
\* is appended and a container is descended into only while the count is below
\* the limit, at every depth.
C12_NoWorkOnceLimitReached ==
  IsSearch
  => /\ out.total <= call.limit
     /\ \A i \in 1..Len(out.trace) : out.trace[i].count < call.limit
     /\ Len(SelectSeq(out.trace, LAMBDA st : st.op = "append")) = out.total

\* a search that reached its limit on a value of the fifth level and left a
\* container of the store unentered
C12_Witness ==
  /\ IsSearch
  /\ Len(out.items) = call.limit
  /\ Len(out.items[Len(out.items)].path) = 4
  /\ Len(SelectSeq(out.trace, LAMBDA st : st.op = "descend"))
       < Cardinality({q \in PathsOf(db) : IsBucketAt(db, q)})

-----------------------------------------------------------------------------
(* Properties of the value accessor *)

IsHead == call.cmd = "get" /\ call.mode = "head"

IsSave == call.cmd = "get" /\ call.mode = "save"

\* the call succeeded: the client resolves with the payload printed
Succeeded == out.exit = 0

\* the container named by the call, Nil when the path does not resolve
CallBucket == IF call.path = <<>> THEN Nil ELSE BucketAtPath(db, Split(call.path))

\* the container of the call holds a value under the key of the call
CallValueExists ==
  /\ call.key # <<>>
  /\ CallBucket # Nil
  /\ IsValueAt(db, Append(CallBucket, DecodeString(call.key)))

CallValue == EntryAt(db, Append(CallBucket, DecodeString(call.key))).val

\* C13: readHead(p, k, len(v)) right after a successful put(p, k, v) returns
\* totalSize = len(v) and the bytes of v as the head.
C13_ReadHeadReturnsWhatWasPut ==
  (IsHead /\ "put" \in DOMAIN call)
  => /\ Succeeded
     /\ out.totalSize = Len(DecodeString(call.put))
     /\ DecodeString(out.valueHeadBase64) = DecodeString(call.put)
     /\ out.valueHeadBase64 = call.put

\* a value of two bytes read back in full right after its put
C13_Witness ==
  /\ IsHead
  /\ "put" \in DOMAIN call
  /\ call.put = EncodeToString(Val2)
  /\ call.n = Len(Val2)
  /\ out.totalSize = Len(Val2)
  /\ CallValue = Val2

\* C14: for an existing value v and n >= 0, readHead returns the first
\* min(n, len(v)) bytes of v as the head and len(v) as totalSize.
C14_HeadIsFirstBytes ==
  (IsHead /\ CallValueExists)
  => /\ Succeeded
     /\ out.totalSize = Len(CallValue)
     /\ DecodeString(out.valueHeadBase64)
          = SubSeq(CallValue, 1, Min({call.n, Len(CallValue)}))

\* a value of two bytes read with n = 1: the head is cut
C14_Witness ==
  /\ IsHead
  /\ CallValueExists
  /\ CallValue = Val2
  /\ call.n = 1
  /\ DecodeString(out.valueHeadBase64) = <<Val2[1]>>

\* C15: readHead with the empty path fails, for every key and n; no success
\* payload is reported.
C15_RootReadFails ==
  (IsHead /\ call.path = <<>>) => ~Succeeded

\* C17: readHead with a non-empty path that does not resolve to a container
\* fails; no success payload with an empty head is reported.
C17_UnresolvedReadFails ==
  (IsHead /\ call.path # <<>> /\ CallBucket = Nil) => ~Succeeded

\* C18: save fails when the container does not exist or the key is absent from
\* it (a key naming a nested container is absent): no success is reported and
\* no value bytes are written.
C18_SaveOfAbsentValueFails ==
  (IsSave /\ call.path # <<>> /\ ~CallValueExists)
  => /\ ~Succeeded
     /\ "file" \in DOMAIN out => out.file.bytes = <<>>

-----------------------------------------------------------------------------
(* Properties of the mutation engine *)

\* the kind of error a message of the write package stands for
Kind(err) ==
  CASE err \in {"key required", "value required", "invalid key base64",
                "invalid value base64", "bucket path required",
                "bucket name required"} -> "InvalidArgument"
    [] err \in {"cannot put key-value at root level",
                "cannot delete key at root level"} -> "InvalidOperation"
    [] err \in {"bucket not found", "parent bucket not found"} -> "NotFound"
    [] err = "bucket already exists" -> "Conflict"
    [] OTHER -> "StoreError"

IsWrite(op) == call.cmd = "write" /\ call.op = op

\* this step is the first run of the write operation op
Runs(op) == Idle /\ call'.cmd = "write" /\ call'.op = op

\* this step repeats the write operation op that has just succeeded
Repeats(op) == IsWrite(op) /\ call'.cmd = "write" /\ "again" \in DOMAIN call'

\* the run of this step failed with an error of kind k
FailsWith(k) == out'.exit = 1 /\ Kind(out'.err) = k

NewPath == Split(call'.path)

ParentPath == SubSeq(NewPath, 1, Len(NewPath) - 1)

\* C19: createContainer of a path a/b of two or more names fails with NotFound
\* while the parent a does not exist and succeeds once a exists (and holds
\* nothing named b); the same call made again fails with Conflict; every
\* failing call leaves the store unchanged.
C19_CreateNeedsParentAndConflicts ==
  [][/\ (Runs("create-bucket") /\ Len(call'.path) > 0 /\ Len(NewPath) >= 2)
          => /\ BucketAtPath(db, ParentPath) = Nil
                  => (FailsWith("NotFound") /\ db' = db)
             /\ (BucketAtPath(db, ParentPath) # Nil /\ NewPath \notin PathsOf(db))
                  => /\ out'.exit = 0
                     /\ db' = db \cup {BucketEntry(NewPath)}
             /\ IsBucketAt(db, NewPath) => FailsWith("Conflict")
             /\ out'.exit # 0 => db' = db
     /\ Repeats("create-bucket")
          => (FailsWith("Conflict") /\ db' = db)]_vars

\* a container a/b created a second time: the call has failed with the
\* store's own error for a duplicate name
C19_Witness ==
  /\ IsWrite("create-bucket")
  /\ "again" \in DOMAIN call
  /\ Len(Split(call.path)) = 2
  /\ out.exit = 1
  /\ out.err = "bucket already exists"
  /\ IsBucketAt(db, Split(call.path))

\* the keys of the container at the path p, as lsk lists them in one page
Listing(d, p) == PageKeys(LskRun(d, p, <<>>, MaxEntries + 1, <<>>))

\* C20: after a deleteEntry(p, k) that succeeded the listing of p does not
\* contain k; deleteEntry of a key that an existing container does not hold
\* succeeds and leaves the listing as it was; deleting the same key a second
\* time succeeds and changes nothing.
C20_DeleteRemovesAndIsIdempotent ==
  [][/\ (Runs("delete-key") /\ out'.exit = 0)
          => \A i \in DOMAIN Listing(db', call'.path) :
               Listing(db', call'.path)[i] # call'.key
     /\ (/\ Runs("delete-key")
         /\ call'.key # <<>>
         /\ call'.path # <<>>
         /\ BucketAtPath(db, Split(call'.path)) # Nil
         /\ Append(BucketAtPath(db, Split(call'.path)), DecodeString(call'.key))
              \notin PathsOf(db))
          => /\ out'.exit = 0
             /\ Listing(db', call'.path) = Listing(db, call'.path)
             /\ db' = db
     /\ Repeats("delete-key")
          => /\ out'.exit = 0
             /\ db' = db
             /\ Listing(db', call'.path) = Listing(db, call'.path)]_vars

\* a key deleted a second time from a container that still holds another key:
\* the call has succeeded
C20_Witness ==
  /\ IsWrite("delete-key")
  /\ "again" \in DOMAIN call
  /\ out.exit = 0
  /\ Len(Listing(db, call.path)) > 0
  /\ \A i \in DOMAIN Listing(db, call.path) : Listing(db, call.path)[i] # call.key

\* C21: after a deleteContainer(a) that succeeded the store holds what it
\* held outside a and nothing at or below a: listing a or any path below it
\* gives no items, no path at or below a resolves, search returns no item at
\* or below a, and readHead finds no value below a.
C21_DeletedSubtreeIsGone ==
  [][(Runs("delete-bucket") /\ out'.exit = 0)
       => /\ db' = {x \in db : ~Below(NewPath, x.path)}
          /\ \A q \in {r \in AllPaths(WriteNames, WriteDepth) : Below(NewPath, r)} :
               /\ q \notin PathsOf(db')
               /\ BucketAtPath(db', q) = Nil
               /\ Listing(db', Join(q)) = <<>>
               /\ \A k \in Base64Of(WriteNames) :
                    LET r == GetRun(db', Join(q), k, "head", MaxHead, "")
                    IN r.totalSize = 0 /\ r.valueHeadBase64 = <<>>
          /\ \A query \in SearchQueries, caseSensitive \in BOOLEAN :
               LET r == SearchRun(db', query, MaxEntries + 1, caseSensitive)
               IN \A i \in 1..Len(r.items) :
                    ~Below(NewPath, ItemPath(r.items[i]))]_vars

\* a container below the root has been deleted and the store still holds its
\* parent
C21_Witness ==
  /\ IsWrite("delete-bucket")
  /\ out.exit = 0
  /\ Len(Split(call.path)) = 2
  /\ IsBucketAt(db, SubSeq(Split(call.path), 1, 1))
  /\ Split(call.path) \notin PathsOf(db)

WriteOps == {"create-bucket", "put", "delete-key", "delete-bucket"}

\* C22: a write operation that returns an error leaves the store exactly as
\* it was before the call, whatever the operation and its arguments.
C22_FailedWriteChangesNothing ==
  [][\A op \in WriteOps :
       ((Runs(op) \/ Repeats(op)) /\ out'.exit # 0) => db' = db]_vars

\* a deleteContainer given the path of a value has failed, and the value is
\* still in the store
C22_Witness ==
  /\ IsWrite("delete-bucket")
  /\ out.exit = 1
  /\ out.err = "incompatible value"
  /\ IsValueAt(db, Split(call.path))

\* C23: in every state reached by any sequence of write operations with
\* arbitrary arguments every entry at the root of the store is a container.
C23_RootHoldsOnlyContainers ==
  \A x \in db : Len(x.path) = 1 => x.isBucket

\* a put at the root with a key and a value has been refused in a store whose
\* containers hold values
C23_Witness ==
  /\ IsWrite("put")
  /\ call.path = <<>>
  /\ out.exit = 1
  /\ Kind(out.err) = "InvalidOperation"
  /\ \E x \in db : ~x.isBucket

\* every name of the path p leads to a container of d
AllSegmentsAreBuckets(d, p) == \A i \in 1..Len(p) : IsBucketAt(d, SubSeq(p, 1, i))

\* C24: for every non-empty path, resolution returns the container at that
\* path when every segment names a container, and nil otherwise: never the
\* container of a shorter prefix.
C24_ResolutionIsAllOrNothing ==
  \A p \in AllPaths(WriteNames, WriteDepth) \ {<<>>} :
    BucketAtPath(db, p) = (IF AllSegmentsAreBuckets(db, p) THEN p ELSE Nil)

\* a createContainer whose parent path ends in a value has failed: the path
\* has a value as an intermediate segment and does not resolve, though its
\* first segment does
C24_Witness ==
  /\ IsWrite("create-bucket")
  /\ out.exit = 1
  /\ out.err = "parent bucket not found"
  /\ Len(Split(call.path)) = 3
  /\ IsBucketAt(db, SubSeq(Split(call.path), 1, 1))
  /\ IsValueAt(db, SubSeq(Split(call.path), 1, 2))
  /\ BucketAtPath(db, Split(call.path)) = Nil

\* C32: a write operation that succeeds changes its target only.  put and
\* deleteEntry leave every entry other than the key k of the container p as
\* it was; createContainer adds one entry, an empty container at the path
\* given; deleteContainer removes the container at the path given with all
\* that is below it, and nothing else.
C32_SuccessfulWriteChangesOnlyItsTarget ==
  [][\A op \in WriteOps :
       ((Runs(op) \/ Repeats(op)) /\ out'.exit = 0)
         => CASE op \in {"put", "delete-key"} ->
                   LET t == Append(NewPath, DecodeString(call'.key))
                   IN /\ {x \in db' : x.path # t} = {x \in db : x.path # t}
                      /\ Cardinality({x \in db' : x.path = t}) <= 1
              [] op = "create-bucket" ->
                   /\ db \subseteq db'
                   /\ db' \ db = {BucketEntry(NewPath)}
                   /\ \A x \in db' : Below(NewPath, x.path) => x.path = NewPath
              [] op = "delete-bucket" ->
                   /\ db' \subseteq db
                   /\ db \ db' = {x \in db : Below(NewPath, x.path)}
                   /\ BucketEntry(NewPath) \in db]_vars

\* a put has succeeded on a container of a store that holds another entry of
\* the same container and a second container
C32_Witness ==
  /\ IsWrite("put")
  /\ out.exit = 0
  /\ \E x \in db :
       /\ Len(x.path) = Len(Split(call.path)) + 1
       /\ Below(Split(call.path), x.path)
       /\ x.path # Append(Split(call.path), DecodeString(call.key))
  /\ \E x \in db : x.isBucket /\ ~Below(x.path, Split(call.path))

\* C26: put with a key on an existing container below the root succeeds for
\* every value, the empty one among them, and afterwards the key maps to the
\* value given, whatever it mapped to before; the same holds for a second put
\* on the same key.  (A key that names a nested container is left aside.)
C26_PutAlwaysSucceeds ==
  [][(/\ Runs("put")
      /\ call'.key # <<>>
      /\ call'.path # <<>>
      /\ BucketAtPath(db, Split(call'.path)) # Nil
      /\ ~IsBucketAt(db, Append(BucketAtPath(db, Split(call'.path)),
                                DecodeString(call'.key))))
       => /\ out'.exit = 0
          /\ ValueEntry(Append(BucketAtPath(db, Split(call'.path)),
                               DecodeString(call'.key)),
                        DecodeString(call'.value)) \in db']_vars

-----------------------------------------------------------------------------
(* Properties of concurrent invocations *)

\* the processes inside their write transaction, and the readers at work
Writing == {p \in Procs : call[p].cmd = "write" /\ call[p].pc = "open"}

Reading == {p \in Procs : call[p].cmd = "read" /\ call[p].pc = "open"}

\* C25: at most one write transaction is open at a time, no reader has the
\* file open while a writer has, and what a reader prints is the result of its
\* command on one committed state of the store: a state the file was in while
\* the reader had it open.
C25_OneWriterAndSnapshotReads ==
  /\ Cardinality(Writing) <= 1
  /\ Writing # {} => \A q \in Procs : call[q].cmd = "none" \/ q \in Writing
  /\ \A p \in Procs :
       (call[p].cmd = "read" /\ call[p].pc = "done")
         => /\ call[p].copy \in call[p].seen
            /\ \E d \in call[p].seen : out[p] = ReadOut(call[p].read, d)

\* a reader has printed the listing of a store of two entries while another
\* reader has the file open
C25_Witness ==
  \E p \in Procs, q \in Procs :
    /\ call[p].cmd = "read"
    /\ call[p].pc = "done"
    /\ call[p].read = "lsk"
    /\ Cardinality(call[p].copy) >= 2
    /\ q \in Reading

-----------------------------------------------------------------------------
(* Properties of the export engine *)

IsExport == call.cmd = "export" /\ out.exit = 0

\* the keys of the direct entries, values and nested containers, of the
\* container at path b
DirectKeys(d, b) ==
  {x.path[Len(x.path)] :
     x \in {y \in d : Len(y.path) = Len(b) + 1 /\ SubSeq(y.path, 1, Len(b)) = b}}

\* the keys of the rows of the file, in the order of the file
RowKeys(rows) == [i \in 1..Len(rows) |-> DecodeString(rows[i].keyBase64)]

\* the keys written, in the order of the trace
RECURSIVE WrittenKeys(_)
WrittenKeys(t) ==
  IF t = <<>> THEN <<>>
  ELSE IF Head(t).ev = "write" THEN <<Head(t).key>> \o WrittenKeys(Tail(t))
  ELSE WrittenKeys(Tail(t))

\* C27: export of a container below the root that resolves writes exactly one
\* record for each direct entry whose key starts with the prefix, in strictly
\* increasing key order, each record with the path asked for, the key and the
\* value of the entry, and each record is written as soon as its entry has
\* been read, before the next entry is read.
C27_ExportStreamsMatchingEntriesInOrder ==
  (IsExport /\ CallBucket # Nil)
    => LET rows == out.file.rows
           keys == RowKeys(rows)
           want == {k \in DirectKeys(db, CallBucket) : HasPrefix(k, call.prefix)}
       IN /\ Len(rows) = Cardinality(want)
          /\ Range(keys) = want
          /\ \A i, j \in 1..Len(keys) : i < j => BytesLess(keys[i], keys[j])
          /\ \A i \in 1..Len(rows) :
               /\ rows[i].path = Split(call.path)
               /\ \A x \in db :
                    (x.path = Append(CallBucket, keys[i]) /\ ~x.isBucket)
                      => DecodeString(rows[i].valueBase64) = x.val
          /\ WrittenKeys(out.trace) = keys
          /\ \A i \in 1..Len(out.trace) :
               out.trace[i].ev = "write"
                 => i > 1 /\ out.trace[i - 1] = [ev |-> "read", key |-> out.trace[i].key]

\* an export with a prefix of a container holding a value and a nested
\* container that both start with it: two records, the second entry read
\* after the first record was written
C27_Witness ==
  /\ IsExport
  /\ CallBucket # Nil
  /\ call.prefix # <<>>
  /\ Len(out.file.rows) = 2
  /\ Len(out.trace) = 4
  /\ out.trace[2].ev = "write"
  /\ out.trace[3].ev = "read"
  /\ \E i \in 1..2 : IsBucketAt(db, Append(CallBucket, RowKeys(out.file.rows)[i]))
  /\ \E i \in 1..2 : out.file.rows[i].valueBase64 = EncodeToString(Val2)

-----------------------------------------------------------------------------
(* Properties of the webview *)

Mutations == {"createBucket", "putKey", "deleteKey", "deleteBucket"}

\* C29: whatever the user has done before, toggling Write Mode while a form,
\* the editor or the confirmation dialog is open included, an event posts a
\* mutation message (createBucket, putKey, deleteKey, deleteBucket) only
\* while Write Mode is on.
C29_MutationsOnlyInWriteMode ==
  [][\A i \in 1..Len(out') : out'[i].type \in Mutations => call.isWriteMode]_vars

-----------------------------------------------------------------------------
(* Properties of the entry point *)

\* C30: a write request of the client (create-bucket, put, delete-key or
\* delete-bucket, sent as the subcommand write) that the mutation engine
\* carries out without error is applied to the store and answered with
\* {ok: true}.
C30_WriteRequestsReachTheMutationEngine ==
  [][(/\ Idle
      /\ call'.cmd = "write"
      /\ WriteRun(db, call').err = "")
       => /\ out' = [exit |-> 0, ok |-> TRUE]
          /\ db' = WriteRun(db, call').db]_vars

-----------------------------------------------------------------------------
(* Properties of the read subcommands *)

ReadSubcommands == {"meta", "lsb", "lsk", "search", "get", "export"}

\* C33: a run of a read operation (meta, lsb, the listings, search, readHead,
\* save, export) leaves the contents of the store as they were, whatever its
\* arguments and whether it succeeds or fails.
C33_ReadsLeaveTheStoreUnchanged ==
  [][(Idle /\ call'.cmd \in ReadSubcommands) => db' = db]_vars

-----------------------------------------------------------------------------
(* Properties of the panel *)

\* the entry of the store that a message names, as a row of the table
RowAt(d, bucketPath, keyBase64) ==
  Find(LskRun(d, bucketPath, <<>>, Cardinality(d) + 1, <<>>).items, keyBase64)

\* C34: the message posted when the user confirms a deletion names the item
\* that the dialog names: for a key, the entry of the container in which the
\* key was selected, which is the row the dialog holds; for a container, the
\* path recorded when the dialog was opened
C34_ConfirmDeletesTheItemNamed ==
  [][HandleConfirmDelete =>
       \A m \in out' \ out :
         IF m.type = "deleteKey"
         THEN RowAt(db, m.bucketPath, m.keyBase64) = call.confirmDelete.item
         ELSE m.bucketPath = call.confirmDelete.path]_vars

\* the requests for keys that the host has not answered
ListKeysOutstanding == {m \in out : m.type = "listKeys"}

\* C35: whenever no request for keys is outstanding (and no error is shown),
\* every row of the displayed list is a row of the container that currentPath
\* names
C35_DisplayedKeysAreOfCurrentPath ==
  (ListKeysOutstanding = {} /\ call.error = Null) =>
    \A i \in 1..Len(call.keys) :
      RowAt(db, call.currentPath, call.keys[i].keyBase64) = call.keys[i]

\* C36: while a search result that is a value waits to be highlighted, a
\* page with its key makes the webview select the key, ask for its head and
\* forget the result, and a page without it that has a nextAfterKey makes the
\* webview ask for the next page of the result's own container from that key
C36_PagingStaysInTheResultsContainer ==
  [][\A m \in ListKeysOutstanding :
       (KeysPosted(m) /\ call.pendingHighlight # Null /\ Page(m).items # <<>>) =>
         LET pending == call.pendingHighlight
             found == Find(Page(m).items, pending.keyBase64)
         IN IF found # Null
            THEN /\ call'.selectedKey = found
                 /\ ReadHeadMsg(pending.bucketPath, pending.keyBase64) \in out'
                 /\ call'.pendingHighlight = Null
            ELSE Page(m).nextAfterKey # <<>> =>
                   /\ ListKeysMsg(pending.bucketPath, Page(m).nextAfterKey) \in out'
                   /\ call'.pendingHighlight = pending]_vars

\* C37: the page that answers a request with an afterKey is appended to the
\* displayed list, and the page that answers a request without one replaces
\* the list
C37_LoadMoreAppends ==
  [][\A m \in ListKeysOutstanding :
       KeysPosted(m) =>
         call'.keys = IF m.afterKey # <<>> THEN call.keys \o Page(m).items
                      ELSE Page(m).items]_vars

\* C38: a search that was asked for is followed by isSearching = false,
\* whether the host answers with results or with an error: once the host has
\* answered every search request, isSearching is false
C38_SearchingEnds ==
  (\A m \in out : m.type # "search") => ~call.isSearching

\* index.tsx lines 979-1031: what the webview does with the completion of the
\* mutation m, and lines 888-891: what it does with an error
CompletionShown(m) ==
  /\ call'.selectedKey = Null
  /\ call'.preview = Null
  /\ call'.isLoading
  /\ \E n \in out' : n.type = "listKeys" /\ n.afterKey = <<>>

ErrorShown == call'.error # Null /\ ~call'.isLoading

\* C39: the host is done with a mutation message only when the webview has
\* been given its completion or an error: none is dropped silently
C39_MutationsAreAnswered ==
  [][\A m \in out \ out' :
       m.type \in {"deleteKey", "deleteBucket"} => CompletionShown(m) \/ ErrorShown]_vars

\* C40: a chain of root pages without prefix, each asked for with the
\* nextAfterKey of the page before it and no mutation in between, ends: no
\* page names as
\* nextAfterKey the very key it was asked with, for then the next call is the
\* same call and the chain never reaches a page without nextAfterKey
C40_RootChainTerminates ==
  (AtRoot /\ call.prefix = <<>> /\ chain.start = <<>> /\ Len(chain.pages) >= 2)
  => out.nextAfterKey # call.afterKey

====
